---- MODULE Spec2Model ----
(***************************************************************************)
(* A model of the tiny-rv32ima-sim hart: the CSR file (trap entry, trap    *)
(* return, access checks, counter enables), the PLIC, the bus' deferred    *)
(* IRQ queue, the run loop that ties them together, and the memory         *)
(* accesses of the hart: Sv32 translation, access faults, LR.W / SC.W.     *)
(*                                                                         *)
(* A u32 is a pair <<hi, lo>> of 16-bit halves, so that bit 31 (the        *)
(* interrupt bit of a cause, the RAM base 0x80000000) is representable and *)
(* additions wrap at 2^32 as the Rust code does.                           *)
(***************************************************************************)
EXTENDS Integers, Sequences, FiniteSets, TLC

VARIABLES
    prv,            \* Cpu.prv
    pc,             \* Cpu.pc
    csr,            \* Cpu.csr (the Csr struct)
    plic,           \* Bus.plic (the Plic struct)
    irqs_to_raise,  \* Bus.irqs_to_raise
    uart,           \* the Uart device's interrupt flags
    virtio,         \* Bus.virtio_net and Bus.virtio_gpu with the rings they serve
    regs,           \* Cpu.regs (x0 .. x31)
    memory,         \* Bus.memory: the words of RAM that are in use
    reserved_addr,  \* Cpu.reserved_addr: <<>> is None, <<a>> is Some(a)
    fault_addr,     \* Cpu.fault_addr: <<>> is None, <<a>> is Some(a)
    phase,          \* position of the run loop inside one iteration
    nops,           \* number of operations applied so far (bounded specifications)
    last            \* the operation that ran last, its inputs and its result

vars == <<prv, pc, csr, plic, irqs_to_raise, uart, virtio, regs, memory,
          reserved_addr, fault_addr, phase, nops, last>>

\* the part of the hart that only loads, stores and atomics touch
cpuvars == <<regs, memory, reserved_addr, fault_addr>>

(***************************************************************************)
(* u32 arithmetic                                                          *)
(***************************************************************************)
Half == 2 ^ 16

RECURSIVE BitAnd(_, _)
BitAnd(a, b) ==
    IF a = 0 \/ b = 0 THEN 0
    ELSE (a % 2) * (b % 2) + 2 * BitAnd(a \div 2, b \div 2)

U(n) == <<n \div Half, n % Half>>
And32(a, b) == <<BitAnd(a[1], b[1]), BitAnd(a[2], b[2])>>
Or32(a, b) == <<a[1] + b[1] - BitAnd(a[1], b[1]), a[2] + b[2] - BitAnd(a[2], b[2])>>
Not32(a) == <<(Half - 1) - a[1], (Half - 1) - a[2]>>
Add32(a, b) ==
    LET lo == a[2] + b[2]
    IN  <<(a[1] + b[1] + (lo \div Half)) % Half, lo % Half>>
Bit32(a, i) == IF i < 16 THEN (a[2] \div (2 ^ i)) % 2 ELSE (a[1] \div (2 ^ (i - 16))) % 2
Zero32 == <<0, 0>>
Lt32(a, b) == a[1] < b[1] \/ (a[1] = b[1] /\ a[2] < b[2])

(***************************************************************************)
(* lib.rs: privileges and traps                                            *)
(***************************************************************************)
User == 0
Supervisor == 1
Machine == 3
Privs == {User, Supervisor, Machine}

InterruptBit == <<32768, 0>>

IlligalInstruction == U(2)
BreakPoint == U(3)
LoadAccessFault == U(5)
EnvCallFromUser == U(8)
EnvCallFromSupervisor == U(9)
EnvCallFromMachine == U(11)
InstructionPageFault == U(12)
LoadPageFault == U(13)
StoreOrAMOPageFault == U(15)
SupervisorSoftwareInterrupt == Or32(InterruptBit, U(1))
SupervisorTimerInterrupt == Or32(InterruptBit, U(5))
SupervisorExternalInterrupt == Or32(InterruptBit, U(9))
UnimplementedCSR == Or32(InterruptBit, U(11))

\* Trap::is_interrupt: (e as u32) >> 31 == 1
IsInterrupt(e) == e[1] \div 32768 = 1
\* Trap::cause: (e as u32) & !(1 << 31)
Cause(e) == (e[1] % 32768) * Half + e[2]

(***************************************************************************)
(* csr.rs: constants                                                       *)
(***************************************************************************)
MSTATUS == 768
MEDELEG == 770
MIDELEG == 771
MIE == 772
MTVEC == 773
MSCRATCH == 832
MEPC == 833
MCAUSE == 834
MTVAL == 835
MIP == 836
SSTATUS == 256
SIE == 260
STVEC == 261
SSCRATCH == 320
SEPC == 321
STVAL == 323
SIP == 324
MHARTID == 3860
MCOUNTEREN == 774
SCOUNTEREN == 262
SATP == 384
CYCLE == 3072
CYCLEH == 3200
TIME == 3073
TIMEH == 3201
INSTRET == 3074
INSTRETH == 3202

MEDELEG_SUPPORTED == <<12, 48127>>
IP_SSIP == U(2)
IP_MSIP == U(8)
IP_STIP == U(32)
IP_MTIP == U(128)
IP_SEIP == U(512)
IP_MEIP == U(2048)
MIDELEG_SUPPORTED == U(2 + 8 + 32 + 128 + 2048 + 512)
MIE_SUPPORTED == U(2 + 8 + 32 + 128 + 512 + 2048)
MIP_SUPPORTED == Or32(IP_SEIP, IP_SSIP)
SIE_SUPPORTED == U(2 + 32 + 512)
TVEC_MODE == U(3)
TVEC_WRITE_MASK == <<65535, 65533>>
EPC_MASK == Not32(U(3))

IP_MEIP_POS == 11
IP_SEIP_POS == 9

STATUS_SIE_POS == 1
STATUS_MIE_POS == 3
STATUS_SPIE_POS == 5
STATUS_MPIE_POS == 7
STATUS_SPP_POS == 8
STATUS_MPP_POS == 11

STATUS_SIE == U(2 ^ STATUS_SIE_POS)
STATUS_MIE == U(2 ^ STATUS_MIE_POS)
STATUS_SPIE == U(2 ^ STATUS_SPIE_POS)
STATUS_MPIE == U(2 ^ STATUS_MPIE_POS)
STATUS_SPP == U(2 ^ STATUS_SPP_POS)
STATUS_MPP == U(3 * (2 ^ STATUS_MPP_POS))
STATUS_MPRV == <<2, 0>>
STATUS_SUM == <<4, 0>>
STATUS_MXR == <<8, 0>>
STATUS_TVM == <<16, 0>>
STATUS_TSR == <<64, 0>>

MSTATUS_SUPPORTED ==
    Or32(STATUS_SIE, Or32(STATUS_MIE, Or32(STATUS_SPIE, Or32(STATUS_MPIE,
    Or32(STATUS_SPP, Or32(STATUS_MPP, Or32(STATUS_TVM, Or32(STATUS_TSR,
    Or32(STATUS_MPRV, STATUS_SUM)))))))))
SSTATUS_SUPPORTED ==
    Or32(STATUS_SIE, Or32(STATUS_SPIE, Or32(STATUS_SPP, Or32(STATUS_MXR, STATUS_SUM))))

COUNTEREN_CY == U(1)
COUNTEREN_TM == U(2)
COUNTEREN_IR == U(4)
MCOUNTEREN_SUPPORTED == Or32(COUNTEREN_CY, COUNTEREN_TM)

\* 0x1ff << 22 and 0x3fffff
SATP_ASID == <<32704, 0>>
SATP_PPN == <<63, 65535>>
\* 1 << 29, a bit of the high word of menvcfg
MENVCFG_ADUE == <<8192, 0>>

\* x << pos for a field value x that stays below 2^31
ShlField(x, pos) == U(x * (2 ^ pos))

\* a u64 field is a pair <<high word, low word>> of u32 values
Zero64 == <<Zero32, Zero32>>
Or64(a, b) == <<Or32(a[1], b[1]), Or32(a[2], b[2])>>
\* a > b and a >= b on u64
Gt64(a, b) == Lt32(b[1], a[1]) \/ (a[1] = b[1] /\ Lt32(b[2], a[2]))
Ge64(a, b) == a = b \/ Gt64(a, b)
\* u64::wrapping_add(1)
WrappingInc64(x) ==
    IF x[2] = Not32(Zero32) THEN <<Add32(x[1], U(1)), Zero32>>
    ELSE <<x[1], Add32(x[2], U(1))>>
\* (value as u64) << pos and (x >> pos) as u32, for pos = 31 or 32
ShlU64(value, pos) ==
    IF pos = 32 THEN <<value, Zero32>>
    ELSE <<<<value[1] \div 2, (value[1] % 2) * 32768 + (value[2] \div 2)>>,
           <<(value[2] % 2) * 32768, 0>>>>
ShrU64(x, pos) ==
    IF pos = 32 THEN x[1]
    ELSE <<(x[1][1] * 2 + (x[1][2] \div 32768)) % Half,
           ((x[1][2] * 2) % Half) + (x[2][1] \div 32768)>>

MINSTRET == 2818
MINSTRETH == 2946
MCOUNTINHIBIT == 800
STIMECMP == 333
STIMECMPH == 349
MINSTRETH_POS == 31
INSTRETH_POS == 32
STIMECMPH_POS == 32
\* !0x7, and COUNTEREN_CY | COUNTEREN_CY
MCOUNTINHIBIT_INITIAL == <<65535, 65528>>
MCOUNTINHIBIT_SUPPORTED == Or32(COUNTEREN_CY, COUNTEREN_CY)

\* Csr::default()
CsrDefault ==
    [mstatus |-> Zero32, mscratch |-> Zero32, mtvec |-> Zero32, mie |-> Zero32,
     mip |-> Zero32, mepc |-> Zero32, mtval |-> Zero32, mcause |-> Zero32,
     medeleg |-> Zero32, mideleg |-> Zero32,
     stvec |-> Zero32, scause |-> Zero32, stval |-> Zero32, sepc |-> Zero32,
     sscratch |-> Zero32, satp |-> Zero32, menvcfg |-> Zero64,
     mcounteren |-> Zero32, scounteren |-> Zero32,
     cycle |-> Zero64, time |-> Zero64, instret |-> Zero64,
     mcountinhibit |-> Zero32, mtimecmp |-> Zero64, stimecmp |-> Zero64,
     suppress_minsret |-> FALSE]

(***************************************************************************)
(* csr.rs: Csr::check_csr_access                                           *)
(***************************************************************************)
\* mutant: the reserved privilege 0b10 is not rejected
CheckCsrAccess_NoReserved(addr, p, is_write) ==
    LET access == (addr \div 1024) % 4
        req_prv == (addr \div 256) % 4
    IN  IF is_write /\ access = 3 THEN FALSE
        ELSE IF req_prv > p THEN FALSE
        ELSE TRUE

CheckCsrAccess(addr, p, is_write) ==
    LET access == (addr \div 1024) % 4
        req_prv == (addr \div 256) % 4
    IN  IF is_write /\ access = 3 THEN FALSE
        ELSE IF req_prv = 2 THEN FALSE
        ELSE IF req_prv > p THEN FALSE
        ELSE TRUE

(***************************************************************************)
(* csr.rs: Csr::read and Csr::write, for the CSRs of the trap machinery.   *)
(* A result is [err, value / csr]; err is "ok", "illegal" (the illegal!()  *)
(* macro) or "unimplemented" (Trap::UnimplementedCSR).                     *)
(***************************************************************************)
\* Csr::is_enabled_mstatus_tvm
IsEnabledMstatusTvm(c) == And32(c.mstatus, STATUS_TVM) # Zero32

\* Csr::chceck_cycle_access, chceck_time_access, chceck_instret_access
ChceckCycleAccess(c, p) ==
    \/ p = Machine
    \/ /\ And32(c.mcounteren, COUNTEREN_CY) # Zero32
       /\ (p = Supervisor \/ And32(c.scounteren, COUNTEREN_CY) # Zero32)

ChceckTimeAccess(c, p) ==
    \/ p = Machine
    \/ /\ And32(c.mcounteren, COUNTEREN_TM) # Zero32
       /\ (p = Supervisor \/ And32(c.scounteren, COUNTEREN_TM) # Zero32)

ChceckInstretAccess(c, p) ==
    \/ p = Machine
    \/ /\ And32(c.mcounteren, COUNTEREN_IR) # Zero32
       /\ (p = Supervisor \/ And32(c.scounteren, COUNTEREN_IR) # Zero32)

CounterCsrs == {CYCLE, CYCLEH, TIME, TIMEH, INSTRET, INSTRETH}

ReadableCsrs ==
    {MSTATUS, MEDELEG, MIDELEG, MIE, MTVEC, MSCRATCH, MEPC, MCAUSE, MTVAL, MIP,
     SSTATUS, SIE, STVEC, SSCRATCH, SEPC, STVAL, SIP, MHARTID,
     MCOUNTEREN, SCOUNTEREN, SATP,
     MINSTRET, MINSTRETH, MCOUNTINHIBIT, STIMECMP, STIMECMPH} \cup CounterCsrs

CsrReadValue(c, addr) ==
    CASE addr = MHARTID -> Zero32
      [] addr = MSTATUS -> c.mstatus
      [] addr = MCAUSE -> c.mcause
      [] addr = MTVEC -> c.mtvec
      [] addr = MIE -> c.mie
      [] addr = MIP -> c.mip
      [] addr = MEPC -> c.mepc
      [] addr = MSCRATCH -> c.mscratch
      [] addr = MTVAL -> c.mtval
      [] addr = MEDELEG -> c.medeleg
      [] addr = MIDELEG -> c.mideleg
      [] addr = SSTATUS -> And32(c.mstatus, SSTATUS_SUPPORTED)
      [] addr = SEPC -> c.sepc
      [] addr = STVEC -> c.stvec
      [] addr = SSCRATCH -> c.sscratch
      [] addr = STVAL -> c.stval
      [] addr = SIE -> And32(c.mie, SIE_SUPPORTED)
      [] addr = SIP -> And32(c.mip, SIE_SUPPORTED)
      [] addr = MCOUNTEREN -> c.mcounteren
      [] addr = SCOUNTEREN -> c.scounteren
      [] addr = SATP -> c.satp
      [] addr = CYCLE -> c.cycle[2]
      [] addr = CYCLEH -> c.cycle[1]
      [] addr = TIME -> c.time[2]
      [] addr = TIMEH -> c.time[1]
      [] addr = INSTRET -> c.instret[2]
      [] addr = INSTRETH -> ShrU64(c.instret, INSTRETH_POS)
      [] addr = MINSTRET -> c.instret[2]
      [] addr = MINSTRETH -> ShrU64(c.instret, MINSTRETH_POS)
      [] addr = MCOUNTINHIBIT -> Or32(c.mcountinhibit, MCOUNTINHIBIT_INITIAL)
      [] addr = STIMECMP -> c.stimecmp[2]
      [] addr = STIMECMPH -> ShrU64(c.stimecmp, STIMECMPH_POS)

\* the illegal!() exits inside the arms of Csr::read
CsrReadRefused(c, addr, p) ==
    \/ addr = SATP /\ p = Supervisor /\ IsEnabledMstatusTvm(c)
    \/ addr \in {CYCLE, CYCLEH} /\ ~ChceckCycleAccess(c, p)
    \/ addr \in {TIME, TIMEH} /\ ~ChceckTimeAccess(c, p)
    \/ addr \in {INSTRET, INSTRETH} /\ ~ChceckInstretAccess(c, p)

CsrRead(c, addr, p) ==
    IF ~CheckCsrAccess(addr, p, FALSE) THEN [err |-> "illegal", value |-> Zero32]
    ELSE IF CsrReadRefused(c, addr, p) THEN [err |-> "illegal", value |-> Zero32]
    ELSE IF addr \in ReadableCsrs THEN [err |-> "ok", value |-> CsrReadValue(c, addr)]
    ELSE [err |-> "unimplemented", value |-> Zero32]

WritableCsrs ==
    {MSTATUS, MEDELEG, MIDELEG, MIE, MTVEC, MSCRATCH, MEPC, MTVAL, MIP,
     SSTATUS, SIE, STVEC, SSCRATCH, SEPC, STVAL, SIP,
     MCOUNTEREN, SCOUNTEREN, SATP,
     MINSTRET, MINSTRETH, MCOUNTINHIBIT, STIMECMP, STIMECMPH}

\* the STIMECMP and STIMECMPH arms: the new compare value, then mip.STIP
SetStimecmp(c, stimecmp) ==
    [c EXCEPT !.mip = IF Gt64(stimecmp, c.time) THEN And32(@, Not32(IP_STIP))
                      ELSE Or32(@, IP_STIP),
              !.stimecmp = stimecmp]

CsrWriteValue(c, addr, value) ==
    CASE addr = MSTATUS -> [c EXCEPT !.mstatus = And32(value, MSTATUS_SUPPORTED)]
      [] addr = MTVEC -> [c EXCEPT !.mtvec = And32(TVEC_WRITE_MASK, value)]
      [] addr = MIE -> [c EXCEPT !.mie = And32(value, MIE_SUPPORTED)]
      [] addr = MIP -> [c EXCEPT !.mip = And32(value, MIP_SUPPORTED)]
      [] addr = MEPC -> [c EXCEPT !.mepc = And32(value, EPC_MASK)]
      [] addr = MSCRATCH -> [c EXCEPT !.mscratch = value]
      [] addr = MTVAL -> [c EXCEPT !.mtval = value]
      [] addr = MEDELEG -> [c EXCEPT !.medeleg = And32(value, MEDELEG_SUPPORTED)]
      [] addr = MIDELEG -> [c EXCEPT !.mideleg = And32(value, MIDELEG_SUPPORTED)]
      [] addr = SSTATUS ->
            [c EXCEPT !.mstatus = Or32(And32(@, Not32(SSTATUS_SUPPORTED)),
                                       And32(value, SSTATUS_SUPPORTED))]
      [] addr = SEPC -> [c EXCEPT !.sepc = And32(value, EPC_MASK)]
      [] addr = STVEC -> [c EXCEPT !.stvec = And32(TVEC_WRITE_MASK, value)]
      [] addr = SSCRATCH -> [c EXCEPT !.sscratch = value]
      [] addr = SIE ->
            [c EXCEPT !.mie = Or32(And32(@, Not32(SIE_SUPPORTED)),
                                   And32(value, SIE_SUPPORTED))]
      [] addr = SIP ->
            [c EXCEPT !.mip = Or32(And32(@, Not32(IP_SSIP)), And32(value, IP_SSIP))]
      [] addr = STVAL -> [c EXCEPT !.stval = value]
      [] addr = MCOUNTEREN ->
            [c EXCEPT !.mcounteren = And32(value, MCOUNTEREN_SUPPORTED)]
      [] addr = SCOUNTEREN ->
            [c EXCEPT !.scounteren = And32(value, MCOUNTEREN_SUPPORTED)]
      [] addr = SATP -> [c EXCEPT !.satp = And32(value, Not32(SATP_ASID))]
      [] addr = MINSTRET ->
            [c EXCEPT !.instret = <<@[1], value>>, !.suppress_minsret = TRUE]
      [] addr = MINSTRETH ->
            [c EXCEPT !.instret = Or64(<<Zero32, @[2]>>, ShlU64(value, MINSTRETH_POS)),
                      !.suppress_minsret = TRUE]
      [] addr = MCOUNTINHIBIT ->
            [c EXCEPT !.mcountinhibit =
                         Or32(Or32(@, MCOUNTINHIBIT_INITIAL),
                              And32(value, MCOUNTINHIBIT_SUPPORTED))]
      [] addr = STIMECMP -> SetStimecmp(c, <<c.stimecmp[1], value>>)
      [] addr = STIMECMPH ->
            SetStimecmp(c, Or64(<<Zero32, c.stimecmp[2]>>, ShlU64(value, STIMECMPH_POS)))

\* the SSTATUS arm returns UnimplementedCSR for a bit outside SSTATUS_SUPPORTED
\* and panics for MXR; both end the simulation in Cpu::handle_trap.  The
\* SCOUNTEREN arm returns UnimplementedCSR for a bit outside
\* MCOUNTEREN_SUPPORTED, the SATP arm is illegal for Supervisor under TVM.
CsrWrite(c, addr, value, p) ==
    IF ~CheckCsrAccess(addr, p, TRUE) THEN [err |-> "illegal", csr |-> c]
    ELSE IF addr \notin WritableCsrs THEN [err |-> "unimplemented", csr |-> c]
    ELSE IF addr = SSTATUS /\ And32(value, Not32(SSTATUS_SUPPORTED)) # Zero32
         THEN [err |-> "unimplemented", csr |-> c]
    ELSE IF addr = SSTATUS /\ And32(value, STATUS_MXR) # Zero32
         THEN [err |-> "panic", csr |-> c]
    ELSE IF addr = SCOUNTEREN /\ And32(value, Not32(MCOUNTEREN_SUPPORTED)) # Zero32
         THEN [err |-> "unimplemented", csr |-> c]
    ELSE IF addr = SATP /\ p = Supervisor /\ IsEnabledMstatusTvm(c)
         THEN [err |-> "illegal", csr |-> c]
    ELSE IF addr \in {STIMECMP, STIMECMPH} /\ ~ChceckTimeAccess(c, p)
         THEN [err |-> "illegal", csr |-> c]
    ELSE [err |-> "ok", csr |-> CsrWriteValue(c, addr, value)]

(***************************************************************************)
(* csr.rs: Csr::handle_trap                                                *)
(***************************************************************************)
IsEnvCall(e) == e \in {EnvCallFromMachine, EnvCallFromSupervisor, EnvCallFromUser}

\* mutant: the originating privilege is not consulted
TrapToMachine_IgnoresPrivilege(c, from_prv, e) ==
    \/ (IsInterrupt(e) /\ Bit32(c.mideleg, Cause(e)) = 0)
    \/ (~IsInterrupt(e) /\ Bit32(c.medeleg, Cause(e)) = 0)

\* mutant: interrupts consult medeleg instead of mideleg
TrapToMachine_WrongRegister(c, from_prv, e) ==
    \/ from_prv = Machine
    \/ Bit32(c.medeleg, Cause(e)) = 0

\* the delegation decision: TRUE when the trap is handled at Machine
TrapToMachine(c, from_prv, e) ==
    \/ from_prv = Machine
    \/ (IsInterrupt(e) /\ Bit32(c.mideleg, Cause(e)) = 0)
    \/ (~IsInterrupt(e) /\ Bit32(c.medeleg, Cause(e)) = 0)

\* mutant: MPP is left as it was
MachineTrapStatus_KeepsMpp(mstatus, from_prv) ==
    LET mie == Bit32(mstatus, STATUS_MIE_POS)
    IN  Or32(And32(mstatus, Not32(Or32(STATUS_MPIE, STATUS_MIE))),
             ShlField(mie, STATUS_MPIE_POS))

MachineTrapStatus(mstatus, from_prv) ==
    LET mie == Bit32(mstatus, STATUS_MIE_POS)
    IN  Or32(Or32(And32(mstatus, Not32(Or32(STATUS_MPIE, Or32(STATUS_MIE, STATUS_MPP)))),
                  ShlField(mie, STATUS_MPIE_POS)),
             ShlField(from_prv, STATUS_MPP_POS))

\* mutant: SIE is latched into SPIE but not cleared
SupervisorTrapStatus_KeepsSie(mstatus, from_prv) ==
    LET spp == IF from_prv = User THEN 0 ELSE 1
        sie == Bit32(mstatus, STATUS_SIE_POS)
    IN  Or32(Or32(And32(mstatus, Not32(Or32(STATUS_SPIE, STATUS_SPP))),
                  ShlField(sie, STATUS_SPIE_POS)),
             ShlField(spp, STATUS_SPP_POS))

SupervisorTrapStatus(mstatus, from_prv) ==
    LET spp == IF from_prv = User THEN 0 ELSE 1
        sie == Bit32(mstatus, STATUS_SIE_POS)
    IN  Or32(Or32(And32(mstatus, Not32(Or32(STATUS_SPIE, Or32(STATUS_SIE, STATUS_SPP)))),
                  ShlField(sie, STATUS_SPIE_POS)),
             ShlField(spp, STATUS_SPP_POS))

\* the handler address: base + 4 * cause for an interrupt in vectored mode
TrapVector(tvec, e) ==
    IF IsInterrupt(e) /\ And32(tvec, TVEC_MODE) # Zero32
    THEN Add32(And32(tvec, Not32(TVEC_MODE)), U(Cause(e) * 4))
    ELSE And32(tvec, Not32(TVEC_MODE))

\* the xtval written by trap entry: skipped for the three environment calls
TrapValue(old, e, xtval) == IF IsEnvCall(e) THEN old ELSE xtval

HandleTrap(c, from_prv, e, va, xtval) ==
    IF TrapToMachine(c, from_prv, e)
    THEN [csr |-> [c EXCEPT !.mcause = e,
                            !.mtval = TrapValue(@, e, xtval),
                            !.mstatus = MachineTrapStatus(@, from_prv),
                            !.mepc = And32(va, EPC_MASK)],
          pc |-> TrapVector(c.mtvec, e),
          prv |-> Machine]
    ELSE [csr |-> [c EXCEPT !.scause = e,
                            !.stval = TrapValue(@, e, xtval),
                            !.mstatus = SupervisorTrapStatus(@, from_prv),
                            !.sepc = And32(va, EPC_MASK)],
          pc |-> TrapVector(c.stvec, e),
          prv |-> Supervisor]

(***************************************************************************)
(* csr.rs: Csr::handle_mret, Csr::handle_sret                              *)
(***************************************************************************)
GetMstatusMpp(c) == Bit32(c.mstatus, STATUS_MPP_POS) + 2 * Bit32(c.mstatus, STATUS_MPP_POS + 1)

\* mutant: MPRV survives a return to a lower privilege
MretStatus_KeepsMprv(mstatus) ==
    LET mpie == Bit32(mstatus, STATUS_MPIE_POS)
    IN  Or32(Or32(Or32(And32(mstatus,
                             Not32(Or32(STATUS_MIE, Or32(STATUS_MPIE, STATUS_MPP)))),
                       ShlField(mpie, STATUS_MIE_POS)),
                  ShlField(1, STATUS_MPIE_POS)),
             ShlField(User, STATUS_MPP_POS))

MretStatus(mstatus) ==
    LET mpp == Bit32(mstatus, STATUS_MPP_POS) + 2 * Bit32(mstatus, STATUS_MPP_POS + 1)
        mpie == Bit32(mstatus, STATUS_MPIE_POS)
        s1 == Or32(Or32(Or32(And32(mstatus,
                                   Not32(Or32(STATUS_MIE, Or32(STATUS_MPIE, STATUS_MPP)))),
                             ShlField(mpie, STATUS_MIE_POS)),
                        ShlField(1, STATUS_MPIE_POS)),
                   ShlField(User, STATUS_MPP_POS))
    IN  IF mpp # Machine THEN And32(s1, Not32(STATUS_MPRV)) ELSE s1

HandleMret(c) ==
    [csr |-> [c EXCEPT !.mstatus = MretStatus(@)], xpp |-> GetMstatusMpp(c)]

SretStatus(mstatus) ==
    LET spp == Bit32(mstatus, STATUS_SPP_POS)
        spie == Bit32(mstatus, STATUS_SPIE_POS)
        s1 == Or32(Or32(Or32(And32(mstatus,
                                   Not32(Or32(STATUS_SIE, Or32(STATUS_SPIE,
                                         Or32(STATUS_SPP, STATUS_MPRV))))),
                             ShlField(spie, STATUS_SIE_POS)),
                        ShlField(1, STATUS_SPIE_POS)),
                   ShlField(User, STATUS_SPP_POS))
    IN  IF spp # Machine THEN And32(s1, Not32(STATUS_MPRV)) ELSE s1

HandleSret(c) ==
    [csr |-> [c EXCEPT !.mstatus = SretStatus(@)],
     xpp |-> Bit32(c.mstatus, STATUS_SPP_POS)]

\* impl From<u32> for Priv: 2 is unreachable!()
ValidPriv(v) == v \in {0, 1, 3}

(***************************************************************************)
(* bus/plic.rs: the Plic struct. IRQ numbers are lib.rs' IRQ enum.         *)
(***************************************************************************)
IRQ_None == 0
IRQ_VirtioNet == 1
IRQ_VirtioGpu == 2
IRQ_Uart == 10
Irqs == {IRQ_VirtioNet, IRQ_VirtioGpu, IRQ_Uart}
PLIC_NUM == 32
PLIC_CONTEXT_NUM == 2
\* Option::None of interrupting_ctx
NoCtx == PLIC_CONTEXT_NUM

\* Plic::default(). pending and enables[ctx] are the u32 bitmaps of the code
\* (PLIC_NUM / 32 = 1 word each);
\* interrupting_irq = IRQ_None and interrupting_ctx = NoCtx stand for None.
PlicDefault ==
    [priories |-> [i \in 0 .. PLIC_NUM - 1 |-> 0],
     pending |-> Zero32,
     enables |-> [c \in 0 .. PLIC_CONTEXT_NUM - 1 |-> Zero32],
     threasholds |-> [c \in 0 .. PLIC_CONTEXT_NUM - 1 |-> 0],
     interrupting_irq |-> IRQ_None,
     interrupting_ctx |-> NoCtx]

\* 1 << (irq % 32), and bitmap & bit != 0
BitOf(irq) == IF irq < 16 THEN <<0, 2 ^ irq>> ELSE <<2 ^ (irq - 16), 0>>
HasBit(bitmap, irq) == Bit32(bitmap, irq) = 1

\* Plic::set_pending, Plic::unset_pending
\* mutant: the UART's bit is set along with the IRQ's
SetPending_AlsoUart(p, irq) ==
    [p EXCEPT !.pending = Or32(@, Or32(BitOf(irq), BitOf(IRQ_Uart)))]

SetPending(p, irq) == [p EXCEPT !.pending = Or32(@, BitOf(irq))]
UnsetPending(p, irq) == [p EXCEPT !.pending = And32(@, Not32(BitOf(irq)))]

\* Plic::find_interrupt_active: the scan over irq = 0 .. PLIC_NUM - 1 and, for
\* each pending irq, over ctx = 0, 1; acc is <<max_priority, target_irq,
\* target_ctx>>. A qualifying (irq, ctx) overwrites acc unconditionally.
ScanCtx(p, irq, ctx, acc) ==
    IF HasBit(p.enables[ctx], irq) /\ p.priories[irq] > p.threasholds[ctx]
    THEN <<p.priories[irq], irq, ctx>>
    ELSE acc

RECURSIVE ScanIrq(_, _, _)
ScanIrq(p, irq, acc) ==
    IF irq = PLIC_NUM THEN acc
    ELSE IF ~HasBit(p.pending, irq) THEN ScanIrq(p, irq + 1, acc)
    ELSE ScanIrq(p, irq + 1, ScanCtx(p, irq, 1, ScanCtx(p, irq, 0, acc)))

FindInterruptActive(p) == ScanIrq(p, 0, <<0, IRQ_None, 0>>)

\* Plic::raise_interrupt: [plic, prv]; prv = NoPriv stands for None
NoPriv == 2
RaiseInterrupt(p) ==
    LET f == FindInterruptActive(p)
    IN  IF f[2] = IRQ_None THEN [plic |-> p, prv |-> NoPriv]
        ELSE [plic |-> [p EXCEPT !.interrupting_irq = f[2], !.interrupting_ctx = f[3]],
              prv |-> IF f[3] = 0 THEN Machine ELSE Supervisor]

\* Plic::lower_interrupt, called with interrupting_irq = Some(irq)
LowerInterrupt(p) == UnsetPending(p, p.interrupting_irq)

\* Csr::set_mip_meip, Csr::set_mip_seip
SetMipMeip(c, meip) ==
    [c EXCEPT !.mip = Or32(And32(@, Not32(IP_MEIP)), ShlField(meip % 2, IP_MEIP_POS))]
SetMipSeip(c, seip) ==
    [c EXCEPT !.mip = Or32(And32(@, Not32(IP_SEIP)), ShlField(seip % 2, IP_SEIP_POS))]

\* PLIC register map
PLIC_PRIORITY_BASE == 0
PLIC_PRIORITY_END == 4096
PLIC_ENABLE_BASE == 8192
PLIC_ENABLE_UNIT == 128
PLIC_THREADSHOLD_BASE == 2097152
PLIC_THREADSHOLD_UNIT == 4096

ClaimOffset(ctx) == PLIC_THREADSHOLD_BASE + ctx * PLIC_THREADSHOLD_UNIT + 4
ThresholdOffset(ctx) == PLIC_THREADSHOLD_BASE + ctx * PLIC_THREADSHOLD_UNIT
EnableOffset(ctx) == PLIC_ENABLE_BASE + ctx * PLIC_ENABLE_UNIT
PriorityOffset(irq) == PLIC_PRIORITY_BASE + 4 * irq

IsClaimOffset(offset) == offset >= PLIC_THREADSHOLD_BASE /\ (offset \div 4) % 2 = 1

\* Plic::read of a claim or threshold register (4-byte access, context 0 or 1):
\* [plic, value]
PlicRead(p, offset) ==
    LET idx == (offset - PLIC_THREADSHOLD_BASE) \div PLIC_THREADSHOLD_UNIT
    IN  IF (offset \div 4) % 2 = 1
        THEN IF p.interrupting_irq = IRQ_None THEN [plic |-> p, value |-> 0]
             ELSE [plic |-> LowerInterrupt(p), value |-> p.interrupting_irq]
        ELSE [plic |-> p, value |-> p.threasholds[idx]]

\* the completion arm of Plic::write, once interrupting_irq is known to be Some
CompleteInterrupt(p, c, value) ==
    IF p.interrupting_irq = value
    THEN [plic |-> [p EXCEPT !.interrupting_irq = IRQ_None, !.interrupting_ctx = NoCtx],
          csr |-> IF p.interrupting_ctx = 0 THEN SetMipMeip(c, 0) ELSE SetMipSeip(c, 0),
          err |-> "ok"]
    ELSE [plic |-> p, csr |-> c, err |-> "ok"]

\* Plic::write (4-byte access): [plic, csr, err]; err = "panic" is the
\* unwrap() of an empty interrupting_irq
PlicWrite(p, c, offset, value) ==
    IF offset < PLIC_PRIORITY_END
    THEN [plic |-> [p EXCEPT !.priories[(offset - PLIC_PRIORITY_BASE) \div 4] = value],
          csr |-> c, err |-> "ok"]
    ELSE IF offset < PLIC_THREADSHOLD_BASE
    THEN [plic |-> [p EXCEPT !.enables[(offset - PLIC_ENABLE_BASE) \div PLIC_ENABLE_UNIT] = U(value)],
          csr |-> c, err |-> "ok"]
    ELSE IF (offset \div 4) % 2 = 1
    THEN IF p.interrupting_irq = IRQ_None THEN [plic |-> p, csr |-> c, err |-> "panic"]
         ELSE CompleteInterrupt(p, c, value)
    ELSE [plic |-> [p EXCEPT !.threasholds[(offset - PLIC_THREADSHOLD_BASE)
                                           \div PLIC_THREADSHOLD_UNIT] = value],
          csr |-> c, err |-> "ok"]

(***************************************************************************)
(* bus/uart.rs: the two interrupt flags of the Uart. iir is IIR_NIP        *)
(* exactly when is_interrupting is false (raise_interrupt, lower_interrupt)*)
(***************************************************************************)
UartDefault == [is_interrupting |-> FALSE, is_taken_interrupt |-> FALSE]

\* Uart::raise_interrupt, Uart::lower_interrupt, Uart::take_interrupt
UartRaiseInterrupt(u) == [is_interrupting |-> TRUE, is_taken_interrupt |-> FALSE]
UartLowerInterrupt(u) == [u EXCEPT !.is_interrupting = FALSE]
UartTakeInterrupt(u) == [u EXCEPT !.is_taken_interrupt = TRUE]

(***************************************************************************)
(* Inputs of the trap specification                                        *)
(***************************************************************************)
MEMORY_BASE == <<32768, 0>>

\* Registers::default(): x11 holds the address of the device tree
DTB_ADDR == <<32784, 0>>
RegistersDefault == [r \in 0 .. 31 |-> IF r = 11 THEN DTB_ADDR ELSE Zero32]
\* Registers::write: x0 is never written
WriteReg(rs, reg, value) == IF reg = 0 THEN rs ELSE [rs EXCEPT ![reg] = value]

\* Option<u32>
NoAddr == <<>>
SomeAddr(a) == <<a>>

\* RAM filled with zeroes: no word of it is in use
MemoryZero == <<>>

\* the virtio devices are left alone: nothing drives them
VirtioIdle == <<>>

\* Cpu::default() for the registers, the reservation and the fault address,
\* with zeroed RAM
CoreReset ==
    /\ regs = RegistersDefault
    /\ memory = MemoryZero
    /\ reserved_addr = NoAddr
    /\ fault_addr = NoAddr

MRET_INST == <<12320, 115>>
SRET_INST == <<4128, 115>>
ECALL_INST == U(115)
\* an instruction word that decodes to no instruction, and a faulting address
BadInst == <<65535, 65535>>
FaultAddr == <<16384, 0>>

Exceptions ==
    {IlligalInstruction, BreakPoint, EnvCallFromUser, EnvCallFromSupervisor,
     EnvCallFromMachine, LoadPageFault}
Interrupts ==
    {SupervisorSoftwareInterrupt, SupervisorTimerInterrupt, SupervisorExternalInterrupt}
Traps == Exceptions \cup Interrupts

\* the xtval Cpu::handle_trap passes for e
XtvalOf(e) ==
    IF e \in {LoadPageFault, StoreOrAMOPageFault, InstructionPageFault} THEN FaultAddr
    ELSE IF e = IlligalInstruction THEN BadInst
    ELSE Zero32

MaxOps == 2

MstatusVals ==
    {Zero32,
     Or32(STATUS_SIE, STATUS_MIE),
     Or32(STATUS_MPIE, Or32(STATUS_MPP, STATUS_MPRV)),
     Or32(STATUS_SIE, Or32(STATUS_SPIE, Or32(STATUS_SPP,
          Or32(ShlField(Supervisor, STATUS_MPP_POS), STATUS_MPRV)))),
     Or32(STATUS_MIE, Or32(STATUS_SPIE, Or32(STATUS_TSR, STATUS_SUM))),
     Or32(STATUS_MPIE, ShlField(2, STATUS_MPP_POS))}
MedelegVals == {Zero32, MEDELEG_SUPPORTED}
MidelegVals == {Zero32, U(2 + 32 + 512)}
\* <<mtvec, stvec>>: one direct and one vectored, both ways round
TvecVals ==
    {<<Or32(MEMORY_BASE, U(256)), Or32(MEMORY_BASE, U(513))>>,
     <<Or32(MEMORY_BASE, U(257)), Or32(MEMORY_BASE, U(512))>>}

\* the record kept in last: the operation, the register it addresses (a CSR
\* number or a PLIC offset), the trap it raised, its u32 operand, its outcome
\* ("ok", "trap", "panic") and the value it read
Op(o, a, e, x, r, v) == [op |-> o, a |-> a, e |-> e, x |-> x, r |-> r, v |-> v]
NoOp == Op("none", 0, Zero32, Zero32, "ok", 0)

\* Every CSR value below is one Machine-mode software can write (it is masked
\* by the CSR's write mask), and Supervisor and User are entered by mret.
InitTrap ==
    /\ prv \in Privs
    /\ pc = Or32(MEMORY_BASE, U(16))
    /\ \E ms \in MstatusVals, md \in MedelegVals, mi \in MidelegVals, tv \in TvecVals :
          csr = [CsrDefault EXCEPT !.mstatus = And32(ms, MSTATUS_SUPPORTED),
                                   !.medeleg = And32(md, MEDELEG_SUPPORTED),
                                   !.mideleg = And32(mi, MIDELEG_SUPPORTED),
                                   !.mtvec = And32(TVEC_WRITE_MASK, tv[1]),
                                   !.stvec = And32(TVEC_WRITE_MASK, tv[2])]
    /\ plic = PlicDefault
    /\ irqs_to_raise = <<>>
    /\ uart = UartDefault
    /\ phase = "step"
    /\ nops = 0
    /\ last = NoOp
    /\ CoreReset
    /\ virtio = VirtioIdle

(***************************************************************************)
(* Csr::handle_trap applied as Cpu::handle_trap applies it: from_prv is    *)
(* the hart's privilege, va its pc, and pc and prv take the result.        *)
(***************************************************************************)
EnterTrap(e, xtval, opname) ==
    LET r == HandleTrap(csr, prv, e, pc, xtval)
    IN  /\ csr' = r.csr
        /\ pc' = r.pc
        /\ prv' = r.prv
        /\ last' = Op(opname, 0, e, xtval, "trap", 0)

\* Cpu::step, ECALL arm: the trap an ECALL raises at privilege p
EcallTrap(p) ==
    CASE p = Supervisor -> EnvCallFromSupervisor
      [] p = User -> EnvCallFromUser
      [] p = Machine -> EnvCallFromMachine

ApplyHandleTrap ==
    /\ nops < MaxOps
    /\ phase = "step"
    /\ \E e \in Traps :
          /\ IsEnvCall(e) => e = EcallTrap(prv)
          /\ EnterTrap(e, XtvalOf(e), "trap")
    /\ nops' = nops + 1
    /\ UNCHANGED <<plic, irqs_to_raise, uart, phase>>
    /\ UNCHANGED <<cpuvars, virtio>>

\* Cpu::step, MRET arm: csr, prv, pc and last; a previous privilege of 2 is
\* the unreachable!() of Priv::from, reached after handle_mret wrote mstatus
Mret ==
    IF prv # Machine
    THEN EnterTrap(IlligalInstruction, MRET_INST, "mret")
    ELSE LET r == HandleMret(csr)
         IN  IF ValidPriv(r.xpp)
             THEN /\ csr' = r.csr
                  /\ prv' = r.xpp
                  /\ pc' = r.csr.mepc
                  /\ last' = Op("mret", 0, Zero32, Zero32, "ok", 0)
             ELSE /\ csr' = r.csr
                  /\ last' = Op("mret", 0, Zero32, Zero32, "panic", 0)
                  /\ UNCHANGED <<prv, pc>>

\* Cpu::step, SRET arm
Sret ==
    IF prv = User \/ And32(csr.mstatus, STATUS_TSR) # Zero32
    THEN EnterTrap(IlligalInstruction, SRET_INST, "sret")
    ELSE LET r == HandleSret(csr)
         IN  /\ csr' = r.csr
             /\ prv' = r.xpp
             /\ pc' = r.csr.sepc
             /\ last' = Op("sret", 0, Zero32, Zero32, "ok", 0)

ApplyMret ==
    /\ nops < MaxOps
    /\ phase = "step"
    /\ Mret
    /\ phase' = IF last'.r = "panic" THEN "panic" ELSE phase
    /\ nops' = nops + 1
    /\ UNCHANGED <<plic, irqs_to_raise, uart>>
    /\ UNCHANGED <<cpuvars, virtio>>

ApplySret ==
    /\ nops < MaxOps
    /\ phase = "step"
    /\ Sret
    /\ UNCHANGED phase
    /\ nops' = nops + 1
    /\ UNCHANGED <<plic, irqs_to_raise, uart>>
    /\ UNCHANGED <<cpuvars, virtio>>

NextTrap == ApplyHandleTrap \/ ApplyMret \/ ApplySret

SpecTrap == InitTrap /\ [][NextTrap]_vars

(***************************************************************************)
(* csr.rs: Csr::can_external_interrupt, Csr::resolve_pending               *)
(***************************************************************************)
CanExternalInterrupt(c, from_prv) ==
    CASE from_prv = Machine -> And32(c.mstatus, STATUS_MIE) # Zero32
      [] from_prv = Supervisor ->
            ~(And32(c.mideleg, IP_SEIP) # Zero32 /\ And32(c.mstatus, STATUS_SIE) = Zero32)
      [] OTHER -> TRUE

\* [kind, e]: kind is "none" (None), "trap" (Some(e)) or "panic"
ResolvePending(c, from_prv) ==
    LET active_bit == And32(c.mip, c.mie)
        none == [kind |-> "none", e |-> Zero32]
    IN  IF active_bit = Zero32 THEN none
        ELSE IF from_prv = Machine /\ And32(c.mstatus, STATUS_MIE) = Zero32 THEN none
        ELSE IF /\ from_prv = Supervisor
                /\ And32(active_bit, c.mideleg) # Zero32
                /\ And32(c.mstatus, STATUS_SIE) = Zero32 THEN none
        ELSE IF And32(active_bit, IP_SEIP) # Zero32
             THEN [kind |-> "trap", e |-> SupervisorExternalInterrupt]
        ELSE IF And32(active_bit, IP_SSIP) # Zero32
             THEN [kind |-> "trap", e |-> SupervisorSoftwareInterrupt]
        ELSE IF And32(active_bit, IP_STIP) # Zero32
             THEN [kind |-> "trap", e |-> SupervisorTimerInterrupt]
        ELSE [kind |-> "panic", e |-> Zero32]

(***************************************************************************)
(* bus.rs: the address map and Bus::tick                                   *)
(***************************************************************************)
MEMORY_END == <<36864, 0>>
CLINT_BASE == <<512, 0>>
InRam(a) == a[1] >= MEMORY_BASE[1] /\ a[1] < MEMORY_END[1]
\* outside CLINT, PLIC, RAM and the three devices (UART 0x10000000 + 0x100,
\* virtio-net 0x10008000 + 0x1000, virtio-gpu 0x10009000 + 0x801000):
\* Bus::read and Bus::write fall through to ctx.make_trap()
Unmapped(a) ==
    /\ a[1] # CLINT_BASE[1]
    /\ ~(a[1] >= 3072 /\ a[1] < 4096)
    /\ ~InRam(a)
    /\ ~(a[1] = 4096 /\ (a[2] < 256 \/ a[2] >= 32768))
    /\ ~(a[1] > 4096 /\ a[1] < 4224)
    /\ ~(a[1] = 4224 /\ a[2] < 40960)

\* the cap on the length of irqs_to_raise, and the number of instructions of
\* a 256-byte block of the program that run in sequence: a jump or a trap
\* ends the block earlier, and only those leave its last instruction
MaxQueue == 2
MaxRun == 2
RunIndex(a) == (a[2] % 256) \div 4

\* mutant: either context raises the machine external interrupt
BusRaiseInterrupt_AlwaysMeip(c, to_prv) ==
    IF to_prv \in {Machine, Supervisor} THEN SetMipMeip(c, 1) ELSE c

\* Bus::raise_interrupt: the mip bit of the context Plic::raise_interrupt chose
BusRaiseInterrupt(c, to_prv) ==
    CASE to_prv = Machine -> SetMipMeip(c, 1)
      [] to_prv = Supervisor -> SetMipSeip(c, 1)
      [] OTHER -> c

\* The devices are ticked in the order Uart, VirtioNet, VirtioGpu. uart_in:
\* a character is buffered and the receive interrupt is enabled; Uart::tick
\* then returns true exactly when the Uart is not interrupting (iir = 1) and
\* raises its interrupt. net_in: VirtioNet::tick delivered a frame.
\* VirtioGpu keeps the default tick, which returns false.
\* last records the devices whose tick returned true (a: 1 for the Uart plus
\* 2 for VirtioNet) and the IRQ handed to the PLIC (v, 0 when none).
Tick(uart_in, net_in) ==
    /\ phase = "tick"
    /\ IF ~CanExternalInterrupt(csr, prv)
       THEN /\ last' = Op("tick", 0, Zero32, Zero32, "gated", 0)
            /\ UNCHANGED <<csr, plic, irqs_to_raise, uart>>
       ELSE LET uart_fires == uart_in /\ ~uart.is_interrupting
                q == irqs_to_raise
                        \o (IF uart_fires THEN <<IRQ_Uart>> ELSE <<>>)
                        \o (IF net_in THEN <<IRQ_VirtioNet>> ELSE <<>>)
                fired == (IF uart_fires THEN 1 ELSE 0) + (IF net_in THEN 2 ELSE 0)
            IN  /\ Len(q) <= MaxQueue + 1
                /\ uart' = IF uart_fires THEN UartRaiseInterrupt(uart) ELSE uart
                /\ IF q # <<>>
                   THEN LET r == RaiseInterrupt(SetPending(plic, Head(q)))
                        IN  /\ plic' = r.plic
                            /\ csr' = BusRaiseInterrupt(csr, r.prv)
                            /\ irqs_to_raise' = Tail(q)
                            /\ last' = Op("tick", fired, Zero32, Zero32, "ok", Head(q))
                   ELSE /\ csr' = SetMipSeip(csr, 0)
                        /\ last' = Op("tick", fired, Zero32, Zero32, "ok", IRQ_None)
                        /\ UNCHANGED <<plic, irqs_to_raise>>
    /\ phase' = "intr"
    /\ UNCHANGED <<prv, pc, nops>>
    /\ UNCHANGED <<cpuvars, virtio>>

BusTick == \E uart_in \in BOOLEAN, net_in \in BOOLEAN : Tick(uart_in, net_in)

(***************************************************************************)
(* cpu.rs: the run loop after the tick. check_local_intrrupt_active, then  *)
(* Cpu::handle_trap for the interrupt it returns; a                        *)
(* SupervisorExternalInterrupt first calls Bus::prepare_interrupt, which   *)
(* unwraps Plic::interrupting_irq and marks the device's interrupt taken.  *)
(* last records the IRQ whose device was marked (v).                       *)
(***************************************************************************)
Intr ==
    /\ phase = "intr"
    /\ LET r == ResolvePending(csr, prv)
       IN  CASE r.kind = "none" ->
                  /\ phase' = "step"
                  /\ UNCHANGED <<prv, pc, csr, uart, nops, last>>
             [] r.kind = "panic"
                \/ (r.kind = "trap" /\ r.e = SupervisorExternalInterrupt
                    /\ plic.interrupting_irq = IRQ_None) ->
                  /\ phase' = "panic"
                  /\ last' = Op("intr", 0, r.e, Zero32, "panic", 0)
                  /\ UNCHANGED <<prv, pc, csr, uart, nops>>
             [] OTHER ->
                  /\ csr' = HandleTrap(csr, prv, r.e, pc, Zero32).csr
                  /\ pc' = HandleTrap(csr, prv, r.e, pc, Zero32).pc
                  /\ prv' = HandleTrap(csr, prv, r.e, pc, Zero32).prv
                  /\ last' = Op("intr", 0, r.e, Zero32, "trap",
                                IF r.e = SupervisorExternalInterrupt
                                THEN plic.interrupting_irq ELSE IRQ_None)
                  /\ uart' = IF r.e = SupervisorExternalInterrupt
                                /\ plic.interrupting_irq = IRQ_Uart
                             THEN UartTakeInterrupt(uart) ELSE uart
                  /\ phase' = "step"
                  /\ UNCHANGED nops
    /\ UNCHANGED <<plic, irqs_to_raise>>
    /\ UNCHANGED <<cpuvars, virtio>>

(***************************************************************************)
(* cpu.rs: Cpu::step, one action per instruction, and the end of the run   *)
(* loop's iteration. The instruction at pc is an input.                    *)
(***************************************************************************)
StepReady == phase = "step" /\ InRam(pc)

\* Ok(false): pc += 4
Advance ==
    /\ RunIndex(pc) < MaxRun
    /\ pc' = Add32(pc, U(4))
    /\ phase' = "tick"
    /\ UNCHANGED nops

\* Err(e): Cpu::handle_trap
StepTrap(e, xtval, opname) ==
    /\ EnterTrap(e, xtval, opname)
    /\ phase' = "tick"
    /\ UNCHANGED nops

\* the fetch of an unmapped address: AccessType::Fetch.into_trap(false) is todo!()
FetchFault ==
    /\ phase = "step"
    /\ Unmapped(pc)
    /\ phase' = "panic"
    /\ last' = Op("fetch", 0, Zero32, pc, "panic", 0)
    /\ UNCHANGED <<prv, pc, csr, plic, irqs_to_raise, uart, nops>>
    /\ UNCHANGED <<cpuvars, virtio>>

\* an instruction that touches none of the modelled state
StepNop ==
    /\ StepReady
    /\ Advance
    /\ last' = Op("nop", 0, Zero32, Zero32, "ok", 0)
    /\ UNCHANGED <<prv, csr, plic, irqs_to_raise, uart>>
    /\ UNCHANGED <<cpuvars, virtio>>

\* JAL to target
StepJump(target) ==
    /\ StepReady
    /\ pc' = target
    /\ phase' = "tick"
    /\ UNCHANGED nops
    /\ last' = Op("jump", 0, Zero32, target, "ok", 0)
    /\ UNCHANGED <<prv, csr, plic, irqs_to_raise, uart>>
    /\ UNCHANGED <<cpuvars, virtio>>

StepEcall ==
    /\ StepReady
    /\ StepTrap(EcallTrap(prv), Zero32, "ecall")
    /\ UNCHANGED <<plic, irqs_to_raise, uart>>
    /\ UNCHANGED <<cpuvars, virtio>>

StepMret ==
    /\ StepReady
    /\ Mret
    /\ UNCHANGED nops
    /\ phase' = IF last'.r = "panic" THEN "panic" ELSE "tick"
    /\ UNCHANGED <<plic, irqs_to_raise, uart>>
    /\ UNCHANGED <<cpuvars, virtio>>

StepSret ==
    /\ StepReady
    /\ Sret
    /\ UNCHANGED nops
    /\ phase' = "tick"
    /\ UNCHANGED <<plic, irqs_to_raise, uart>>
    /\ UNCHANGED <<cpuvars, virtio>>

\* the instruction word of csrrw x0, addr, x5
CsrwInst(addr) == <<addr * 16 + 2, 36979>>

\* CSRRW with rd = x0: Csr::write only
StepCsrw(addr, value) ==
    /\ StepReady
    /\ LET r == CsrWrite(csr, addr, value, prv)
       IN  CASE r.err = "ok" ->
                  /\ Advance
                  /\ csr' = r.csr
                  /\ last' = Op("csrw", addr, Zero32, value, "ok", 0)
                  /\ UNCHANGED prv
             [] r.err = "illegal" ->
                  StepTrap(IlligalInstruction, CsrwInst(addr), "csrw")
             [] OTHER ->
                  /\ phase' = "panic"
                  /\ last' = Op("csrw", addr, UnimplementedCSR, value, "panic", 0)
                  /\ UNCHANGED <<prv, pc, csr, nops>>
    /\ UNCHANGED <<plic, irqs_to_raise, uart>>
    /\ UNCHANGED <<cpuvars, virtio>>

\* LW from PLIC_BASE + ClaimOffset(ctx): Bus::read, Plic::read
StepPlicClaim(ctx) ==
    /\ StepReady
    /\ Advance
    /\ LET r == PlicRead(plic, ClaimOffset(ctx))
       IN  /\ plic' = r.plic
           /\ last' = Op("claim", ClaimOffset(ctx), Zero32, Zero32, "ok", r.value)
    /\ UNCHANGED <<prv, csr, irqs_to_raise, uart>>
    /\ UNCHANGED <<cpuvars, virtio>>

\* SW of value to PLIC_BASE + offset: Bus::write, Plic::write
StepPlicStore(offset, value) ==
    /\ StepReady
    /\ LET r == PlicWrite(plic, csr, offset, value)
       IN  IF r.err = "panic"
           THEN /\ phase' = "panic"
                /\ last' = Op("plic_store", offset, Zero32, U(value), "panic", 0)
                /\ UNCHANGED <<pc, csr, plic, nops>>
           ELSE /\ Advance
                /\ plic' = r.plic
                /\ csr' = r.csr
                /\ last' = Op("plic_store", offset, Zero32, U(value), "ok", 0)
    /\ UNCHANGED <<prv, irqs_to_raise, uart>>
    /\ UNCHANGED <<cpuvars, virtio>>

\* LB from UART_BASE + offset with DLAB clear: Uart::read, then Bus::read
\* queues the Uart's IRQ when the response says it is interrupting
UART_RBR == 0
UART_LSR == 5
StepUartRead(offset) ==
    /\ StepReady
    /\ Advance
    /\ LET u == IF offset = UART_RBR /\ uart.is_interrupting
                THEN UartLowerInterrupt(uart) ELSE uart
       IN  /\ uart' = u
           /\ u.is_interrupting => Len(irqs_to_raise) < MaxQueue
           /\ irqs_to_raise' = IF u.is_interrupting
                               THEN Append(irqs_to_raise, IRQ_Uart)
                               ELSE irqs_to_raise
    /\ last' = Op("uart_read", offset, Zero32, Zero32, "ok", 0)
    /\ UNCHANGED <<prv, csr, plic>>
    /\ UNCHANGED <<cpuvars, virtio>>

\* mutant: the response's is_interrupting is ignored
BusDeviceResponse_Ignored(q, irq, is_interrupting) == q

\* Bus::read / Bus::write on a device range: the device's IRQ is pushed to
\* the back of irqs_to_raise when the response says it is interrupting
BusDeviceResponse(q, irq, is_interrupting) ==
    IF is_interrupting THEN Append(q, irq) ELSE q

\* SB to UART_BASE + 0 with DLAB clear (THR): the character is printed, and
\* the transmit interrupt is raised when IER.ETBEI is set. etbei: that bit
\* of the Uart's ier.
StepUartWrite(etbei) ==
    /\ StepReady
    /\ Advance
    /\ LET u == IF etbei THEN UartRaiseInterrupt(uart) ELSE uart
       IN  /\ uart' = u
           /\ u.is_interrupting => Len(irqs_to_raise) < MaxQueue
           /\ irqs_to_raise' = BusDeviceResponse(irqs_to_raise, IRQ_Uart, u.is_interrupting)
           /\ last' = Op("uart_write", IRQ_Uart, Zero32, Zero32, "ok",
                         IF u.is_interrupting THEN 1 ELSE 0)
    /\ UNCHANGED <<prv, csr, plic>>
    /\ UNCHANGED <<cpuvars, virtio>>

\* SW to the QueueNotify register of VirtioNet or VirtioGpu (irq names the
\* device). is_interrupting: what the device's handle_notify returns, which
\* depends on the descriptor rings in memory.
VIRTIO_REG_NOTIFY == 80
StepVirtioNotify(irq, is_interrupting) ==
    /\ StepReady
    /\ Advance
    /\ is_interrupting => Len(irqs_to_raise) < MaxQueue
    /\ irqs_to_raise' = BusDeviceResponse(irqs_to_raise, irq, is_interrupting)
    /\ last' = Op("notify", irq, Zero32, U(VIRTIO_REG_NOTIFY), "ok",
                  IF is_interrupting THEN 1 ELSE 0)
    /\ UNCHANGED <<prv, csr, plic, uart>>
    /\ UNCHANGED <<cpuvars, virtio>>

(***************************************************************************)
(* The run loop from reset: Cpu::default and load_flat_program leave the   *)
(* hart in Machine at MEMORY_BASE with Csr::default; the program is the    *)
(* input.                                                                  *)
(***************************************************************************)
HandlerM == Or32(MEMORY_BASE, U(256))
HandlerS == Or32(MEMORY_BASE, U(512))

BootWrites == {<<MTVEC, HandlerM>>, <<MSTATUS, ShlField(Supervisor, STATUS_MPP_POS)>>}

InitBoot ==
    /\ prv = Machine
    /\ pc = MEMORY_BASE
    /\ csr = CsrDefault
    /\ plic = PlicDefault
    /\ irqs_to_raise = <<>>
    /\ uart = UartDefault
    /\ phase = "tick"
    /\ nops = 0
    /\ last = NoOp
    /\ CoreReset
    /\ virtio = VirtioIdle

\* no character and no frame arrives while the hart boots
BootTick == Tick(FALSE, FALSE)
BootCsrw == \E w \in BootWrites : StepCsrw(w[1], w[2])
BootJump == StepJump(MEMORY_BASE)

NextBoot ==
    \/ BootTick
    \/ Intr
    \/ FetchFault
    \/ StepNop
    \/ BootJump
    \/ StepEcall
    \/ StepMret
    \/ StepSret
    \/ BootCsrw

SpecBoot == InitBoot /\ [][NextBoot]_vars

(***************************************************************************)
(* The run loop with the PLIC in use. The configuration of the PLIC is     *)
(* what stores to its priority, enable and threshold registers leave.      *)
(***************************************************************************)
PlicConfigured(pri_net, pri_uart, en0, en1, th1) ==
    [PlicDefault EXCEPT !.priories[IRQ_VirtioNet] = pri_net,
                        !.priories[IRQ_Uart] = pri_uart,
                        !.enables[0] = en0,
                        !.enables[1] = en1,
                        !.threasholds[1] = th1]

BothIrqs == Or32(BitOf(IRQ_VirtioNet), BitOf(IRQ_Uart))
EnableVals ==
    {<<Zero32, BothIrqs>>,
     <<BitOf(IRQ_VirtioNet), BitOf(IRQ_Uart)>>,
     <<BothIrqs, Zero32>>}

\* Machine mode with mstatus.MIE set and mie = 0: the bus ticks the devices
\* and no interrupt is taken
InitPlic ==
    /\ prv = Machine
    /\ pc = MEMORY_BASE
    /\ csr = [CsrDefault EXCEPT !.mstatus = STATUS_MIE, !.mtvec = HandlerM]
    /\ \E pri_net \in {1, 2}, pri_uart \in {1, 2}, en \in EnableVals, th1 \in {0, 1} :
          plic = PlicConfigured(pri_net, pri_uart, en[1], en[2], th1)
    /\ irqs_to_raise = <<>>
    /\ uart = UartDefault
    /\ phase = "tick"
    /\ nops = 0
    /\ last = NoOp
    /\ CoreReset
    /\ virtio = VirtioIdle

DevJump == StepJump(MEMORY_BASE)
DevClaim == \E ctx \in 0 .. PLIC_CONTEXT_NUM - 1 : StepPlicClaim(ctx)
DevComplete ==
    \E ctx \in 0 .. PLIC_CONTEXT_NUM - 1, value \in {IRQ_VirtioNet, IRQ_Uart} :
        StepPlicStore(ClaimOffset(ctx), value)
DevUartRead == \E offset \in {UART_RBR, UART_LSR} : StepUartRead(offset)

NextDev ==
    \/ BusTick
    \/ Intr
    \/ StepNop
    \/ DevJump
    \/ DevClaim
    \/ DevComplete
    \/ DevUartRead

SpecPlic == InitPlic /\ [][NextDev]_vars

(***************************************************************************)
(* The run loop with the UART's interrupt routed to context 1 and the      *)
(* supervisor external interrupt enabled in mie.                           *)
(***************************************************************************)
IrqMstatusVals == {STATUS_SIE, Or32(STATUS_SIE, STATUS_MIE)}
\* direct, and vectored with the external interrupt's entry (base + 4 * 9) at
\* the same address
IrqStvecVals == {HandlerS, Or32(MEMORY_BASE, U(512 - 36 + 1))}

InitIrq ==
    /\ prv \in Privs
    /\ pc = MEMORY_BASE
    /\ \E ms \in IrqMstatusVals, mi \in {Zero32, IP_SEIP}, tv \in IrqStvecVals :
          csr = [CsrDefault EXCEPT !.mstatus = ms, !.mie = IP_SEIP, !.mideleg = mi,
                                   !.mtvec = HandlerM, !.stvec = tv]
    /\ \E pri_net \in {0, 1} :
          plic = PlicConfigured(pri_net, 1, Zero32, BothIrqs, 0)
    /\ irqs_to_raise = <<>>
    /\ uart = UartDefault
    /\ phase = "tick"
    /\ nops = 0
    /\ last = NoOp
    /\ CoreReset
    /\ virtio = VirtioIdle

SpecIrq == InitIrq /\ [][NextDev]_vars

(***************************************************************************)
(* Csr::read and Csr::write applied to a CSR file, for every privilege     *)
(***************************************************************************)
MaxCsrOps == 1

\* addresses without an arm in Csr::read and Csr::write: hypervisor and
\* custom numbers of each privilege and access class
CsrProbes == {512, 1536, 3602, 1984, 1472, 2240, 3264}
CsrAddrs == ReadableCsrs \cup CsrProbes
CsrValues == {Zero32, STATUS_SIE, <<65535, 65535>>}

CsrPopulated ==
    [CsrDefault EXCEPT !.mstatus = Or32(STATUS_SIE, STATUS_MPIE),
                       !.mie = MIE_SUPPORTED, !.mip = IP_SSIP,
                       !.mtvec = HandlerM, !.stvec = HandlerS,
                       !.mepc = MEMORY_BASE, !.mscratch = BadInst,
                       !.medeleg = MEDELEG_SUPPORTED, !.mideleg = SIE_SUPPORTED]

\* the PLIC (context 0) and the timer have raised MEIP and MTIP
CsrPending == [CsrPopulated EXCEPT !.mip = Or32(IP_MEIP, Or32(IP_MTIP, IP_SSIP))]

InitCsr ==
    /\ prv \in Privs
    /\ pc = MEMORY_BASE
    /\ csr \in {CsrDefault, CsrPopulated, CsrPending}
    /\ plic = PlicDefault
    /\ irqs_to_raise = <<>>
    /\ uart = UartDefault
    /\ phase = "step"
    /\ nops = 0
    /\ last = NoOp
    /\ CoreReset
    /\ virtio = VirtioIdle

\* the trap a Csr::read or Csr::write result carries
CsrErrTrap(err) ==
    CASE err = "illegal" -> IlligalInstruction
      [] err = "unimplemented" -> UnimplementedCSR
      [] OTHER -> Zero32

ApplyCsrWrite ==
    /\ nops < MaxCsrOps
    /\ \E addr \in CsrAddrs, value \in CsrValues :
          LET r == CsrWrite(csr, addr, value, prv)
          IN  /\ csr' = r.csr
              /\ last' = Op("csr_write", addr, CsrErrTrap(r.err), value, r.err, 0)
    /\ nops' = nops + 1
    /\ UNCHANGED <<prv, pc, plic, irqs_to_raise, uart, phase>>
    /\ UNCHANGED <<cpuvars, virtio>>

\* the value read is kept in last.x
ApplyCsrRead ==
    /\ nops < MaxCsrOps
    /\ \E addr \in CsrAddrs :
          LET r == CsrRead(csr, addr, prv)
          IN  last' = Op("csr_read", addr, CsrErrTrap(r.err), r.value, r.err, 0)
    /\ nops' = nops + 1
    /\ UNCHANGED <<prv, pc, csr, plic, irqs_to_raise, uart, phase>>
    /\ UNCHANGED <<cpuvars, virtio>>

NextCsr == ApplyCsrWrite \/ ApplyCsrRead

SpecCsr == InitCsr /\ [][NextCsr]_vars

(***************************************************************************)
(* Machine software programs the counter-enable chain: csrw mcounteren,    *)
(* x5; csrw scounteren, x6; mret to the privilege held in mstatus.MPP;     *)
(* then csrr x7, <counter>.  nops is the position in that program, x5 and  *)
(* x6 keep the values written.                                             *)
(***************************************************************************)
CounterEnVals == {U(n) : n \in 0 .. 7}

InitCounter ==
    /\ prv = Machine
    /\ pc = MEMORY_BASE
    /\ \E mpp \in Privs :
          csr = [CsrDefault EXCEPT !.mstatus = ShlField(mpp, STATUS_MPP_POS),
                                   !.mepc = MEMORY_BASE, !.mtvec = HandlerM]
    /\ plic = PlicDefault
    /\ irqs_to_raise = <<>>
    /\ uart = UartDefault
    /\ \E m \in CounterEnVals, s \in CounterEnVals :
          regs = [RegistersDefault EXCEPT ![5] = m, ![6] = s]
    /\ memory = MemoryZero
    /\ virtio = VirtioIdle
    /\ reserved_addr = NoAddr
    /\ fault_addr = NoAddr
    /\ phase = "step"
    /\ nops = 0
    /\ last = NoOp

\* the instruction words of csrrw x0, addr, rs1 and of csrrs x7, addr, x0
CsrrwInst(addr, rs1) == <<addr * 16 + (rs1 \div 2), (rs1 % 2) * 32768 + 4211>>
CsrrsInst(addr) == <<addr * 16, 9203>>

\* Cpu::step, CSRRW arm with rd = x0 (no read), then pc += 4, or
\* Cpu::handle_trap for an error: UnimplementedCSR ends the simulation
CounterCsrw(addr, rs1) ==
    /\ phase = "step"
    /\ LET r == CsrWrite(csr, addr, regs[rs1], prv)
       IN  CASE r.err = "ok" ->
                  /\ csr' = r.csr
                  /\ pc' = Add32(pc, U(4))
                  /\ last' = Op("csr_write", addr, Zero32, regs[rs1], "ok", 0)
                  /\ UNCHANGED <<prv, phase>>
             [] r.err = "illegal" ->
                  /\ EnterTrap(IlligalInstruction, CsrrwInst(addr, rs1), "csr_write")
                  /\ UNCHANGED phase
             [] OTHER ->
                  /\ phase' = "panic"
                  /\ last' = Op("csr_write", addr, UnimplementedCSR, regs[rs1], "panic", 0)
                  /\ UNCHANGED <<prv, pc, csr>>
    /\ nops' = nops + 1
    /\ UNCHANGED <<plic, irqs_to_raise, uart>>
    /\ UNCHANGED <<cpuvars, virtio>>

CounterWriteM ==
    /\ nops = 0
    /\ CounterCsrw(MCOUNTEREN, 5)

CounterWriteS ==
    /\ nops = 1
    /\ CounterCsrw(SCOUNTEREN, 6)

CounterMret ==
    /\ phase = "step"
    /\ nops = 2
    /\ Mret
    /\ nops' = nops + 1
    /\ UNCHANGED <<plic, irqs_to_raise, uart, phase>>
    /\ UNCHANGED <<cpuvars, virtio>>

\* Cpu::step, CSRRS arm with rs1 = x0 (no write): rd takes the value and
\* pc += 4 when the read succeeds, Cpu::handle_trap enters the trap otherwise;
\* last.a is the CSR address of a trapping read as well
CounterRead ==
    /\ phase = "step"
    /\ nops >= 3
    /\ nops < 3 + MaxCsrOps
    /\ \E addr \in CounterCsrs :
          LET r == CsrRead(csr, addr, prv)
          IN  IF r.err = "ok"
              THEN /\ regs' = WriteReg(regs, 7, r.value)
                   /\ pc' = Add32(pc, U(4))
                   /\ last' = Op("csr_read", addr, Zero32, r.value, "ok", 0)
                   /\ UNCHANGED <<prv, csr>>
              ELSE /\ LET t == HandleTrap(csr, prv, CsrErrTrap(r.err), pc, CsrrsInst(addr))
                      IN  /\ csr' = t.csr
                          /\ pc' = t.pc
                          /\ prv' = t.prv
                   /\ last' = Op("csr_read", addr, CsrErrTrap(r.err), CsrrsInst(addr),
                                 "trap", 0)
                   /\ UNCHANGED regs
    /\ nops' = nops + 1
    /\ UNCHANGED <<plic, irqs_to_raise, uart, phase>>
    /\ UNCHANGED <<memory, reserved_addr, fault_addr, virtio>>

NextCounter == CounterWriteM \/ CounterWriteS \/ CounterMret \/ CounterRead

SpecCounter == InitCounter /\ [][NextCounter]_vars

(***************************************************************************)
(* cpu.rs: Sv32 address translation (Cpu::translate_va) and the memory     *)
(* accesses of Cpu::read_memory and Cpu::write_memory.  The program has no *)
(* translation cache: tlb.rs is not part of the crate (lib.rs declares no  *)
(* such module) and Cpu has no field for one, so every translation walks   *)
(* the page table in memory.                                               *)
(***************************************************************************)
PTE_V == 1
PTE_R == 2
PTE_W == 4
PTE_X == 8
PTE_U == 16
PTE_A == 64
PTE_D == 128
PTESIZE == 4
PAGESIZE == 4096

\* lib.rs: AccessType as u32
Read == 2
Write == 4
Fetch == 8

InstructionAddressMisaligned == U(0)
StoreOrAMOAddressMisaligned == U(6)
StoreOrAMOAccessFault == U(7)

\* AccessType::into_trap; <<>> stands for the todo!() of a Fetch that is not
\* a page walk, which aborts the simulator
IntoTrap(access_type, is_walk) ==
    IF is_walk
    THEN CASE access_type = Fetch -> <<InstructionPageFault>>
           [] access_type = Read -> <<LoadPageFault>>
           [] access_type = Write -> <<StoreOrAMOPageFault>>
    ELSE CASE access_type = Fetch -> <<>>
           [] access_type = Read -> <<LoadAccessFault>>
           [] access_type = Write -> <<StoreOrAMOAccessFault>>

\* memory.rs: a word of RAM; a word that was never written reads 0
MemRead(mem, pa) == IF pa \in DOMAIN mem THEN mem[pa] ELSE Zero32
MemWrite(mem, pa, value) ==
    IF pa \in DOMAIN mem THEN [mem EXCEPT ![pa] = value]
    ELSE [a \in DOMAIN mem \cup {pa} |-> IF a = pa THEN value ELSE mem[a]]

\* The result of an access: kind is "ok", "err" (Err(e) returned),
\* "fault" (Err(e) returned after fault_addr = Some(va)), "panic" or
\* "device" (the access reaches CLINT, PLIC or a device, modelled elsewhere).
Access(kind, e, pa, value) == [kind |-> kind, e |-> e, pa |-> pa, value |-> value]

\* Bus::read of an aligned word
BusRead(mem, pa, access_type, is_walk) ==
    IF InRam(pa) THEN Access("ok", Zero32, pa, MemRead(mem, pa))
    ELSE IF Unmapped(pa)
         THEN LET t == IntoTrap(access_type, is_walk)
              IN  IF t = <<>> THEN Access("panic", Zero32, pa, Zero32)
                  ELSE Access("err", t[1], pa, Zero32)
    ELSE Access("device", Zero32, pa, Zero32)

\* Bus::write of an aligned word: the result and the memory after it
BusWrite(mem, pa, value, access_type, is_walk) ==
    IF InRam(pa) THEN [res |-> Access("ok", Zero32, pa, value),
                       mem |-> MemWrite(mem, pa, value)]
    ELSE IF Unmapped(pa)
         THEN [res |-> Access("err", IntoTrap(access_type, is_walk)[1], pa, Zero32),
               mem |-> mem]
    ELSE [res |-> Access("device", Zero32, pa, Zero32), mem |-> mem]

\* Csr::is_paging_enabled, get_satp_ppn, is_enabled_mstatus_mprv / _sum,
\* is_svadu_enabled
IsPagingEnabled(c) == c.satp[1] \div 32768 = 1
GetSatpPpn(c) == And32(c.satp, SATP_PPN)
IsEnabledMstatusMprv(c) == And32(c.mstatus, STATUS_MPRV) # Zero32
IsEnabledMstatusSum(c) == And32(c.mstatus, STATUS_SUM) # Zero32
IsSvaduEnabled(c) == And32(c.menvcfg[1], MENVCFG_ADUE) = Zero32

\* ppn * PAGESIZE in u32 for a page number below 2^22; the product wraps for
\* ppn >= 2^20 in a release build and panics in a debug build, so the page
\* tables of the specifications keep their page numbers below 2^20
PageBase(ppn) == <<(ppn \div 16) % Half, (ppn % 16) * PAGESIZE>>
\* (vpns >> (10 * i)) & 0x3ff with vpns = va >> 12
Vpn(va, i) == IF i = 1 THEN va[1] \div 64 ELSE (va[1] % 64) * 16 + (va[2] \div PAGESIZE)
\* pte >> 10
PtePpn(pte) == pte[1] * 64 + (pte[2] \div 1024)
\* pte & (0x3ff << 10) != 0
SuperpageMisaligned(pte) == pte[1] % 16 # 0 \/ pte[2] \div 1024 # 0
\* ((pte << 2) & 0xffc00000) | (va & 0x3fffff) for i = 1,
\* ((pte << 2) & 0xfffff000) | (va & 0xfff) for i = 0
LeafPa(pte, va, i) ==
    IF i = 1 THEN <<((pte[1] \div 16) % 1024) * 64 + (va[1] % 64), va[2]>>
    ELSE LET ppn == (pte[1] % 16384) * 64 + (pte[2] \div 1024)
         IN  <<ppn \div 16, (ppn % 16) * PAGESIZE + (va[2] % PAGESIZE)>>

\* mutant: the walk stops at the root level and treats any valid entry as a
\* 4 MiB leaf that maps the page of the matching identity address
Walk_RootOnly(c, mem, local_prv, va, access_type, i, addr) ==
    LET rd == BusRead(mem, Add32(addr, U(Vpn(va, 1) * PTESIZE)), Read, TRUE)
    IN  Access("ok", Zero32, LeafPa(rd.value, va, 1), Zero32)

\* the loop `for i in (0..2).rev()` of Cpu::translate_va, from level i with
\* the table at addr
RECURSIVE Walk(_, _, _, _, _, _, _)
Walk(c, mem, local_prv, va, access_type, i, addr) ==
    LET pte_addr == Add32(addr, U(Vpn(va, i) * PTESIZE))
        rd == BusRead(mem, pte_addr, Read, TRUE)
        pte == rd.value
        v == BitAnd(pte[2], PTE_V)
        r == BitAnd(pte[2], PTE_R)
        w == BitAnd(pte[2], PTE_W)
        x == BitAnd(pte[2], PTE_X)
        u == BitAnd(pte[2], PTE_U)
        a == BitAnd(pte[2], PTE_A)
        d == BitAnd(pte[2], PTE_D)
        fault == Access("fault", IntoTrap(access_type, TRUE)[1], Zero32, Zero32)
    IN  IF rd.kind # "ok" THEN rd
        ELSE IF v = 0 \/ (r = 0 /\ w # 0) THEN fault
        ELSE IF (r # 0 \/ x # 0)
                /\ (r = access_type \/ w = access_type \/ x = access_type)
             THEN IF i > 0 /\ SuperpageMisaligned(pte) THEN fault
                  ELSE IF \/ (u = 0 /\ local_prv = User)
                          \/ (u # 0 /\ local_prv = Supervisor /\ (r # 0 \/ w # 0)
                              /\ ~IsEnabledMstatusSum(c))
                       THEN fault
                  ELSE IF a = 0 \/ (access_type = Write /\ d = 0)
                       THEN IF IsSvaduEnabled(c) THEN fault
                            ELSE Access("panic", Zero32, Zero32, Zero32)
                  ELSE Access("ok", Zero32, LeafPa(pte, va, i), Zero32)
        ELSE IF i = 0 THEN fault
        ELSE Walk(c, mem, local_prv, va, access_type, i - 1, PageBase(PtePpn(pte)))

\* mutant: a translation of the 4 MiB page at 0x40000000 to 0x80400000 that
\* was cached earlier is used without a walk
TranslateVa_Cached(c, mem, p, va, access_type) ==
    IF IsPagingEnabled(c) /\ p # Machine /\ va[1] \div 64 = 256
    THEN Access("ok", Zero32, <<32832 + (va[1] % 64), va[2]>>, Zero32)
    ELSE Access("ok", Zero32, va, Zero32)

\* Cpu::translate_va
TranslateVa(c, mem, p, va, access_type) ==
    IF ~IsPagingEnabled(c) THEN Access("ok", Zero32, va, Zero32)
    ELSE LET mprv == IsEnabledMstatusMprv(c) /\ access_type \in {Read, Write}
             local_prv == IF mprv THEN GetMstatusMpp(c) ELSE p
         IN  IF ~ValidPriv(local_prv) THEN Access("panic", Zero32, Zero32, Zero32)
             ELSE IF local_prv = Machine THEN Access("ok", Zero32, va, Zero32)
             ELSE Walk(c, mem, local_prv, va, access_type, 1,
                       PageBase(GetSatpPpn(c)[1] * Half + GetSatpPpn(c)[2]))

\* Cpu::read_memory_u32
ReadMemory(c, mem, p, va) ==
    LET t == TranslateVa(c, mem, p, va, Read)
    IN  IF t.kind # "ok" THEN t ELSE BusRead(mem, t.pa, Read, FALSE)

\* Cpu::write_memory_u32
WriteMemory(c, mem, p, va, value) ==
    LET t == TranslateVa(c, mem, p, va, Write)
    IN  IF t.kind # "ok" THEN [res |-> t, mem |-> mem]
        ELSE BusWrite(mem, t.pa, value, Write, FALSE)

\* Cpu::fetch
FetchInst(c, mem, p, va) ==
    LET t == TranslateVa(c, mem, p, va, Fetch)
    IN  IF t.kind # "ok" THEN t
        ELSE IF t.pa[2] % 4 # 0
             THEN Access("err", InstructionAddressMisaligned, t.pa, Zero32)
        ELSE BusRead(mem, t.pa, Fetch, FALSE)

(***************************************************************************)
(* Loads, stores, LR.W / SC.W, SFENCE.VMA and jumps under Sv32.  Machine   *)
(* software has built a root page table at 0x80001000 and written satp,    *)
(* medeleg and the trap vectors:                                           *)
(*   VA 0x80000000 (entry 0x200)  4 MiB identity mapping of the program    *)
(*   VA 0x40000000 (entry 0x100)  invalid (0), or 4 MiB at PA 0x80400000   *)
(*   VA 0x40400000 (entry 0x101)  pointer to a table at PA 0 (not mapped)  *)
(*   VA 0x00000000 (entry 0x000)  4 MiB at PA 0, where the bus has nothing *)
(* An instruction that returns Err leaves the hart in phase "trap" with    *)
(* the trap in last.e; TakeTrap is Cpu::handle_trap for it.                *)
(***************************************************************************)
MaxMmuOps == 4

ROOT_TABLE == <<32768, 4096>>
SatpSv32 == <<32776, 1>>
PteIdentity == <<8192, 207>>
PteData == <<8208, 207>>
PteHole == <<0, 207>>
PteBadPointer == <<0, 1>>

VaData == <<32768, 12288>>
VaOdd == <<32768, 12290>>
VaPte == Add32(ROOT_TABLE, U(256 * PTESIZE))
VaBadWalk == <<16448, 0>>
PaData == <<32832, 0>>

LoadVas == {FaultAddr, VaData, VaBadWalk, Zero32}
StoreVas == {FaultAddr, VaData, VaPte}
AmoVas == {FaultAddr, VaData, VaOdd}
JumpTargets == {HandlerS, Add32(HandlerS, U(2)), Zero32}

PageTables(pte) ==
    [a \in {ROOT_TABLE, VaPte, Add32(VaPte, U(PTESIZE)), Add32(ROOT_TABLE, U(512 * PTESIZE)),
            VaData, PaData} |->
        CASE a = ROOT_TABLE -> PteHole
          [] a = VaPte -> pte
          [] a = Add32(VaPte, U(PTESIZE)) -> PteBadPointer
          [] a = Add32(ROOT_TABLE, U(512 * PTESIZE)) -> PteIdentity
          [] OTHER -> Zero32]

InitMmu ==
    /\ prv \in {Supervisor, Machine}
    /\ pc = MEMORY_BASE
    /\ csr = [CsrDefault EXCEPT !.satp = SatpSv32, !.mtvec = HandlerM, !.stvec = HandlerS,
                                !.medeleg = Or32(U(2 ^ 12), Or32(U(2 ^ 13), U(2 ^ 15)))]
    /\ plic = PlicDefault
    /\ irqs_to_raise = <<>>
    /\ uart = UartDefault
    /\ regs = [RegistersDefault EXCEPT ![5] = PteData]
    /\ \E pte \in {Zero32, PteData} : memory = PageTables(pte)
    /\ virtio = VirtioIdle
    /\ reserved_addr = NoAddr
    /\ fault_addr = NoAddr
    /\ phase = "step"
    /\ nops = 0
    /\ last = NoOp

\* Cpu::step begins with Cpu::fetch
MmuReady ==
    /\ phase = "step"
    /\ nops < MaxMmuOps
    /\ FetchInst(csr, memory, prv, pc).kind = "ok"

\* Ok(false): pc += 4
MmuDone(opname, a, va) ==
    /\ pc' = Add32(pc, U(4))
    /\ last' = Op(opname, a, Zero32, va, "ok", 0)
    /\ UNCHANGED <<fault_addr, phase>>

\* Err(e), with the latch of the fault! macro when the access faulted in the
\* page walk; or a panic of the simulator
MmuRaise(res, opname, a, va) ==
    /\ res.kind \in {"fault", "err", "panic"}
    /\ fault_addr' = IF res.kind = "fault" THEN SomeAddr(va) ELSE fault_addr
    /\ phase' = IF res.kind = "panic" THEN "panic" ELSE "trap"
    /\ last' = Op(opname, a, res.e, va, IF res.kind = "panic" THEN "panic" ELSE "err", 0)
    /\ UNCHANGED pc

\* LW x7, (va)
MmuLoad ==
    /\ MmuReady
    /\ \E va \in LoadVas :
          LET res == ReadMemory(csr, memory, prv, va)
          IN  IF res.kind = "ok"
              THEN /\ regs' = WriteReg(regs, 7, res.value)
                   /\ MmuDone("load", 7, va)
              ELSE /\ MmuRaise(res, "load", 7, va)
                   /\ UNCHANGED regs
    /\ nops' = nops + 1
    /\ UNCHANGED <<prv, csr, plic, irqs_to_raise, uart, virtio, memory, reserved_addr>>

\* SW rs2, (va)
MmuStore ==
    /\ MmuReady
    /\ \E va \in StoreVas, rs2 \in {0, 5} :
          LET w == WriteMemory(csr, memory, prv, va, regs[rs2])
          IN  IF w.res.kind = "ok"
              THEN /\ memory' = w.mem
                   /\ MmuDone("store", rs2, va)
              ELSE /\ MmuRaise(w.res, "store", rs2, va)
                   /\ UNCHANGED memory
    /\ nops' = nops + 1
    /\ UNCHANGED <<prv, csr, plic, irqs_to_raise, uart, virtio, regs, reserved_addr>>

\* the alignment test at the head of the AMO arm
AmoMisaligned(va) == va[2] % 4 # 0
AmoMisalignedErr == Access("err", StoreOrAMOAddressMisaligned, Zero32, Zero32)

\* LR.W x7, (va)
MmuLr ==
    /\ MmuReady
    /\ \E va \in AmoVas :
          LET res == IF AmoMisaligned(va) THEN AmoMisalignedErr
                     ELSE ReadMemory(csr, memory, prv, va)
          IN  IF res.kind = "ok"
              THEN /\ regs' = WriteReg(regs, 7, res.value)
                   /\ reserved_addr' = SomeAddr(va)
                   /\ MmuDone("lr", 7, va)
              ELSE /\ MmuRaise(res, "lr", 7, va)
                   /\ UNCHANGED <<regs, reserved_addr>>
    /\ nops' = nops + 1
    /\ UNCHANGED <<prv, csr, plic, irqs_to_raise, uart, virtio, memory>>

\* mutant: the store-conditional does not look at the reservation
ScMatches_Always(reserved, va) == TRUE

\* `if let Some(reserved_addr) = self.reserved_addr && reserved_addr == addr`
ScMatches(reserved, va) == reserved = SomeAddr(va)

\* SC.W x7, x5, (va)
MmuSc ==
    /\ MmuReady
    /\ \E va \in AmoVas :
          IF AmoMisaligned(va)
          THEN /\ MmuRaise(AmoMisalignedErr, "sc", 7, va)
               /\ UNCHANGED <<regs, memory, reserved_addr>>
          ELSE IF ScMatches(reserved_addr, va)
          THEN LET w == WriteMemory(csr, memory, prv, va, regs[5])
               IN  IF w.res.kind = "ok"
                   THEN /\ memory' = w.mem
                        /\ regs' = WriteReg(regs, 7, Zero32)
                        /\ reserved_addr' = NoAddr
                        /\ MmuDone("sc", 7, va)
                   ELSE /\ MmuRaise(w.res, "sc", 7, va)
                        /\ UNCHANGED <<regs, memory, reserved_addr>>
          ELSE /\ regs' = WriteReg(regs, 7, U(1))
               /\ reserved_addr' = NoAddr
               /\ MmuDone("sc", 7, va)
               /\ UNCHANGED memory
    /\ nops' = nops + 1
    /\ UNCHANGED <<prv, csr, plic, irqs_to_raise, uart, virtio>>

SFENCE_INST == <<4608, 115>>

\* SFENCE.VMA: illegal for Supervisor under mstatus.TVM, nothing otherwise
MmuSfence ==
    /\ MmuReady
    /\ IF IsEnabledMstatusTvm(csr) /\ prv = Supervisor
       THEN MmuRaise(Access("err", IlligalInstruction, Zero32, Zero32), "sfence", 0,
                     SFENCE_INST)
       ELSE MmuDone("sfence", 0, Zero32)
    /\ nops' = nops + 1
    /\ UNCHANGED <<prv, csr, plic, irqs_to_raise, uart, virtio>>
    /\ UNCHANGED <<regs, memory, reserved_addr>>

\* JALR x0 to target: Cpu::check_misaligned_addr latches a misaligned target
MmuJump ==
    /\ MmuReady
    /\ \E target \in JumpTargets :
          IF target[2] % 4 # 0
          THEN /\ fault_addr' = SomeAddr(target)
               /\ phase' = "trap"
               /\ last' = Op("jump", 0, InstructionAddressMisaligned, target, "err", 0)
               /\ UNCHANGED pc
          ELSE /\ pc' = target
               /\ last' = Op("jump", 0, Zero32, target, "ok", 0)
               /\ UNCHANGED <<fault_addr, phase>>
    /\ nops' = nops + 1
    /\ UNCHANGED <<prv, csr, plic, irqs_to_raise, uart, virtio>>
    /\ UNCHANGED <<regs, memory, reserved_addr>>

\* Cpu::step when Cpu::fetch fails
MmuFetchFault ==
    /\ phase = "step"
    /\ MmuRaise(FetchInst(csr, memory, prv, pc), "fetch", 0, pc)
    /\ UNCHANGED <<prv, csr, plic, irqs_to_raise, uart, virtio, nops>>
    /\ UNCHANGED <<regs, memory, reserved_addr>>

\* the traps for which Cpu::handle_trap takes xtval from fault_addr.unwrap()
LatchedTraps ==
    {InstructionAddressMisaligned, LoadPageFault, StoreOrAMOPageFault, InstructionPageFault}

\* Cpu::handle_trap for the Err(e) of the step: last.e is e, and last.x the
\* instruction word when e is IlligalInstruction
TakeTrap ==
    /\ phase = "trap"
    /\ IF last.e \in LatchedTraps /\ fault_addr = NoAddr
       THEN /\ phase' = "panic"
            /\ last' = Op("trap", 0, last.e, Zero32, "panic", 0)
            /\ UNCHANGED <<prv, pc, csr, fault_addr>>
       ELSE LET xtval == IF last.e \in LatchedTraps THEN fault_addr[1]
                         ELSE IF last.e = IlligalInstruction THEN last.x
                         ELSE Zero32
            IN  /\ EnterTrap(last.e, xtval, "trap")
                /\ fault_addr' = IF last.e \in LatchedTraps THEN NoAddr ELSE fault_addr
                /\ phase' = "step"
    /\ UNCHANGED <<plic, irqs_to_raise, uart, virtio, nops>>
    /\ UNCHANGED <<regs, memory, reserved_addr>>

NextMmu ==
    \/ MmuLoad
    \/ MmuStore
    \/ MmuLr
    \/ MmuSc
    \/ MmuSfence
    \/ MmuJump
    \/ MmuFetchFault
    \/ TakeTrap

SpecMmu == InitMmu /\ [][NextMmu]_vars

(***************************************************************************)
(* Fields of mstatus, as the claims name them                              *)
(***************************************************************************)
FieldMIE(c) == Bit32(c.mstatus, STATUS_MIE_POS)
FieldSIE(c) == Bit32(c.mstatus, STATUS_SIE_POS)
FieldMPIE(c) == Bit32(c.mstatus, STATUS_MPIE_POS)
FieldSPIE(c) == Bit32(c.mstatus, STATUS_SPIE_POS)
FieldSPP(c) == Bit32(c.mstatus, STATUS_SPP_POS)
FieldMPP(c) == Bit32(c.mstatus, STATUS_MPP_POS) + 2 * Bit32(c.mstatus, STATUS_MPP_POS + 1)
FieldMPRV(c) == Bit32(c.mstatus, 17)

\* the step from the unprimed to the primed state was a trap entry
TookTrap == last'.r = "trap"

\* the delegation condition of the trap-entry contract, on the unprimed state
DelegationBitClear(e) ==
    IF IsInterrupt(e) THEN Bit32(csr.mideleg, Cause(e)) = 0
    ELSE Bit32(csr.medeleg, Cause(e)) = 0

(***************************************************************************)
(* C1. A trap entry never lowers the privilege: the privilege after the    *)
(* entry is at least the privilege it was taken from; from Machine it is   *)
(* Machine, and it is never User.                                          *)
(***************************************************************************)
C1_TrapNeverLowersPrivilege ==
    [][TookTrap =>
        /\ prv' >= prv
        /\ (prv = Machine => prv' = Machine)
        /\ prv' \in {Supervisor, Machine}]_vars

\* a trap taken from User was delegated to Supervisor (SPP records User)
C1_Witness ==
    /\ last.r = "trap"
    /\ prv = Supervisor
    /\ FieldSPP(csr) = 0

(***************************************************************************)
(* C2. Trap entry latches exactly one interrupt-enable pair. Handled at    *)
(* Machine: MPIE = old MIE, MIE = 0, MPP = originating privilege, and SIE, *)
(* SPIE, SPP unchanged. Handled at Supervisor: SPIE = old SIE, SIE = 0,    *)
(* SPP = 0 for User and 1 otherwise, and MIE, MPIE, MPP unchanged.         *)
(***************************************************************************)
C2_TrapLatchesOnePair ==
    [][TookTrap =>
        IF prv' = Machine
        THEN /\ FieldMPIE(csr') = FieldMIE(csr)
             /\ FieldMIE(csr') = 0
             /\ FieldMPP(csr') = prv
             /\ FieldSIE(csr') = FieldSIE(csr)
             /\ FieldSPIE(csr') = FieldSPIE(csr)
             /\ FieldSPP(csr') = FieldSPP(csr)
        ELSE /\ FieldSPIE(csr') = FieldSIE(csr)
             /\ FieldSIE(csr') = 0
             /\ FieldSPP(csr') = (IF prv = User THEN 0 ELSE 1)
             /\ FieldMIE(csr') = FieldMIE(csr)
             /\ FieldMPIE(csr') = FieldMPIE(csr)
             /\ FieldMPP(csr') = FieldMPP(csr)]_vars

\* a Supervisor-handled trap that found SIE set, with MIE still set
C2_Witness ==
    /\ last.r = "trap"
    /\ prv = Supervisor
    /\ FieldSPIE(csr) = 1
    /\ FieldSIE(csr) = 0
    /\ FieldMIE(csr) = 1

(***************************************************************************)
(* C3. After a completed mret: MIE = previous MPIE, MPIE = 1, MPP = User,  *)
(* privilege = previous MPP. After a completed sret: SIE = previous SPIE,  *)
(* SPIE = 1, SPP = User, privilege = previous SPP. In both cases MPRV = 0  *)
(* when the restored privilege is not Machine.                             *)
(***************************************************************************)
C3_TrapReturn ==
    [][/\ (last'.op = "mret" /\ last'.r = "ok") =>
            /\ FieldMIE(csr') = FieldMPIE(csr)
            /\ FieldMPIE(csr') = 1
            /\ FieldMPP(csr') = User
            /\ prv' = FieldMPP(csr)
            /\ (prv' # Machine => FieldMPRV(csr') = 0)
       /\ (last'.op = "sret" /\ last'.r = "ok") =>
            /\ FieldSIE(csr') = FieldSPIE(csr)
            /\ FieldSPIE(csr') = 1
            /\ FieldSPP(csr') = User
            /\ prv' = FieldSPP(csr)
            /\ (prv' # Machine => FieldMPRV(csr') = 0)]_vars

\* an mret that returned to Supervisor
C3_Witness ==
    /\ last.op = "mret"
    /\ last.r = "ok"
    /\ prv = Supervisor
    /\ FieldMPIE(csr) = 1

(***************************************************************************)
(* C4. As claimed: a trap is handled at Machine, writing mcause, mepc and  *)
(* mtval, exactly when it comes from Machine or its delegation bit is 0;   *)
(* otherwise it is handled at Supervisor, writing scause, sepc and stval,  *)
(* and mcause, mepc, mtval are unchanged.                                  *)
(***************************************************************************)
C4_Original ==
    [][TookTrap =>
        LET e == last'.e
            x == last'.x
        IN  IF prv = Machine \/ DelegationBitClear(e)
            THEN /\ prv' = Machine
                 /\ csr'.mcause = e
                 /\ csr'.mepc = And32(pc, EPC_MASK)
                 /\ csr'.mtval = x
            ELSE /\ prv' = Supervisor
                 /\ csr'.scause = e
                 /\ csr'.sepc = And32(pc, EPC_MASK)
                 /\ csr'.stval = x
                 /\ csr'.mcause = csr.mcause
                 /\ csr'.mepc = csr.mepc
                 /\ csr'.mtval = csr.mtval]_vars

(***************************************************************************)
(* C4, amended. The same, except that an environment call (from User,      *)
(* Supervisor or Machine) leaves mtval (resp. stval) as it was; every      *)
(* other trap writes it.                                                   *)
(***************************************************************************)
C4_Delegation ==
    [][TookTrap =>
        LET e == last'.e
            x == last'.x
        IN  IF prv = Machine \/ DelegationBitClear(e)
            THEN /\ prv' = Machine
                 /\ csr'.mcause = e
                 /\ csr'.mepc = And32(pc, EPC_MASK)
                 /\ csr'.mtval = (IF IsEnvCall(e) THEN csr.mtval ELSE x)
                 /\ csr'.scause = csr.scause
                 /\ csr'.sepc = csr.sepc
                 /\ csr'.stval = csr.stval
            ELSE /\ prv' = Supervisor
                 /\ csr'.scause = e
                 /\ csr'.sepc = And32(pc, EPC_MASK)
                 /\ csr'.stval = (IF IsEnvCall(e) THEN csr.stval ELSE x)
                 /\ csr'.mcause = csr.mcause
                 /\ csr'.mepc = csr.mepc
                 /\ csr'.mtval = csr.mtval]_vars

\* a delegated environment call that left an earlier stval in place
C4_Witness ==
    /\ last.r = "trap"
    /\ IsEnvCall(last.e)
    /\ prv = Supervisor
    /\ csr.scause = last.e
    /\ csr.stval = BadInst

(***************************************************************************)
(* The run loop with loads and stores on the device ranges: the UART and   *)
(* the two virtio devices.                                                 *)
(***************************************************************************)
InitBus ==
    /\ prv = Machine
    /\ pc = MEMORY_BASE
    /\ csr = [CsrDefault EXCEPT !.mstatus = STATUS_MIE, !.mtvec = HandlerM]
    /\ \E en \in {<<Zero32, BothIrqs>>, <<BothIrqs, Zero32>>} :
          plic = PlicConfigured(1, 1, en[1], en[2], 0)
    /\ irqs_to_raise = <<>>
    /\ uart = UartDefault
    /\ phase = "tick"
    /\ nops = 0
    /\ last = NoOp
    /\ CoreReset
    /\ virtio = VirtioIdle

DevUartWrite == \E etbei \in BOOLEAN : StepUartWrite(etbei)
DevNotify ==
    \E irq \in {IRQ_VirtioNet, IRQ_VirtioGpu}, is_interrupting \in BOOLEAN :
        StepVirtioNotify(irq, is_interrupting)

NextBus ==
    \/ BusTick
    \/ Intr
    \/ StepNop
    \/ DevJump
    \/ DevClaim
    \/ DevComplete
    \/ DevUartRead
    \/ DevUartWrite
    \/ DevNotify

SpecBus == InitBus /\ [][NextBus]_vars

(***************************************************************************)
(* C5. As claimed: from the reset CSR state (mtvec apart, which names the  *)
(* handler), an ECALL executed in Machine at pc 0x80000000 records         *)
(* mcause = 11 and mepc = 0x80000000 and leaves the hart in Machine; the   *)
(* MRET executed next, at the handler, sets the pc to mepc and the         *)
(* privilege to User.                                                      *)
(***************************************************************************)
\* the reset CSR state, mtvec apart
ResetButMtvec(c) == [c EXCEPT !.mtvec = Zero32] = CsrDefault

\* the state the ECALL at MEMORY_BASE leaves: at the handler, cause and epc
\* recorded, every CSR the trap does not write at its reset value
AtHandlerOfEcall ==
    /\ prv = Machine
    /\ pc = csr.mtvec
    /\ csr.mcause = EnvCallFromMachine
    /\ csr.mepc = MEMORY_BASE
    /\ [csr EXCEPT !.mtvec = Zero32, !.mcause = Zero32, !.mepc = Zero32,
                   !.mstatus = And32(@, Not32(STATUS_MPP))] = CsrDefault

EcallAtBase == last'.op = "ecall" /\ prv = Machine /\ pc = MEMORY_BASE /\ ResetButMtvec(csr)
MretAtHandler == last'.op = "mret" /\ AtHandlerOfEcall

CsrAccess == last'.op \in {"csr_read", "csr_write"}

AccessRejected ==
    LET a == last'.a
    IN  \/ (last'.op = "csr_write" /\ (a \div 1024) % 4 = 3)
        \/ (a \div 256) % 4 = 2
        \/ (a \div 256) % 4 > prv

C6_AccessCheckRejects ==
    [][(CsrAccess /\ AccessRejected) =>
        /\ last'.r = "illegal"
        /\ last'.e = IlligalInstruction
        /\ csr' = csr]_vars

\* a Supervisor write to mstatus, rejected, on a CSR file that is not the
\* reset one
C6_Witness ==
    /\ last.op = "csr_write"
    /\ last.a = MSTATUS
    /\ last.r = "illegal"
    /\ prv = Supervisor
    /\ csr = CsrPopulated

(***************************************************************************)
(* C7. As claimed: with priority[UART] = 1, enable[ctx 1][UART] = 1,       *)
(* threshold[1] = 0, mstatus.SIE = 1, sie.SEIE = 1 and mideleg.SEIP = 1,   *)
(* the bus tick in which the UART asserts its interrupt sets mip.SEIP; the *)
(* interrupt check after it takes SupervisorExternalInterrupt into         *)
(* Supervisor at the stvec handler with scause = 0x80000009; a read of     *)
(* Claim[ctx 1] that follows the trap returns 10; writing 10 back clears   *)
(* mip.SEIP.                                                               *)
(***************************************************************************)
SEI == SupervisorExternalInterrupt
Seip(c) == Bit32(c.mip, IP_SEIP_POS)

UartRouted ==
    /\ plic.priories[IRQ_Uart] = 1
    /\ HasBit(plic.enables[1], IRQ_Uart)
    /\ plic.threasholds[1] = 0

SeiEnabled ==
    /\ FieldSIE(csr) = 1
    /\ Bit32(csr.mie, IP_SEIP_POS) = 1
    /\ Bit32(csr.mideleg, IP_SEIP_POS) = 1

\* l records a bus tick in which Uart::tick returned true
UartFired(l) == l.op = "tick" /\ l.a % 2 = 1

\* the trap reads the claim register, and the handler writes 10 back
ClaimAfterTrap ==
    /\ last.op = "intr" /\ last.e = SEI /\ last.v = IRQ_Uart
    /\ last'.op = "claim" /\ last'.a = ClaimOffset(1)
CompleteUart ==
    /\ plic.interrupting_irq = IRQ_Uart /\ plic.interrupting_ctx = 1
    /\ last'.op = "plic_store" /\ last'.a = ClaimOffset(1) /\ last'.x = U(IRQ_Uart)

Candidates(p, ctx) ==
    {i \in 1 .. PLIC_NUM - 1 :
        /\ HasBit(p.pending, i)
        /\ HasBit(p.enables[ctx], i)
        /\ p.priories[i] > p.threasholds[ctx]}

BestIrq(p, ctx) ==
    CHOOSE i \in Candidates(p, ctx) :
        \A j \in Candidates(p, ctx) :
            \/ p.priories[i] > p.priories[j]
            \/ (p.priories[i] = p.priories[j] /\ i <= j)

ClaimRead(ctx) == last'.op = "claim" /\ last'.a = ClaimOffset(ctx)

C8_Original ==
    [][\A ctx \in 0 .. PLIC_CONTEXT_NUM - 1 :
        (ClaimRead(ctx) /\ Candidates(plic, ctx) # {}) =>
            last'.v = BestIrq(plic, ctx)]_vars

(***************************************************************************)
(* C9. In every reachable PLIC state, a read of a Claim register returns 0 *)
(* whenever no IRQ is at that moment pending, enabled for the context and  *)
(* of priority above the context's threshold.                              *)
(***************************************************************************)
C9_Original ==
    [][\A ctx \in 0 .. PLIC_CONTEXT_NUM - 1 :
        (ClaimRead(ctx) /\ Candidates(plic, ctx) = {}) => last'.v = 0]_vars

(***************************************************************************)
(* C10. A write of v to Claim/Complete[ctx] clears the outstanding claim   *)
(* and the claimed context's external-interrupt bit of mip (MEIP for       *)
(* context 0, SEIP for context 1) exactly when v is the outstanding        *)
(* claimed IRQ; in every other case (v differs, or no claim is             *)
(* outstanding) the PLIC state and mip are unchanged; the write completes  *)
(* normally in every case.                                                 *)
(***************************************************************************)
CompleteWrite ==
    /\ last'.op = "plic_store"
    /\ last'.a \in {ClaimOffset(0), ClaimOffset(1)}

C10_Original ==
    [][CompleteWrite =>
        /\ last'.r = "ok"
        /\ IF plic.interrupting_irq # IRQ_None /\ last'.x = U(plic.interrupting_irq)
           THEN /\ plic' = [plic EXCEPT !.interrupting_irq = IRQ_None,
                                        !.interrupting_ctx = NoCtx]
                /\ csr'.mip = And32(csr.mip,
                                    Not32(IF plic.interrupting_ctx = 0
                                          THEN IP_MEIP ELSE IP_SEIP))
           ELSE /\ plic' = plic
                /\ csr'.mip = csr.mip]_vars

(***************************************************************************)
(* C11. A bus read or write that hits a device range (UART, virtio-net,    *)
(* virtio-GPU) changes neither mip nor the PLIC (its pending bitmap and    *)
(* its outstanding claim), even when the device reports is_interrupting:   *)
(* the device's IRQ is only appended to the deferred queue, and an IRQ     *)
(* becomes pending in the PLIC in a bus tick only.                         *)
(***************************************************************************)
DeviceAccess == last'.op \in {"uart_read", "uart_write", "notify"}

\* the IRQ of the device the access hit
AccessedIrq == IF last'.op = "notify" THEN last'.a ELSE IRQ_Uart

NewlyPending == \E i \in Irqs : HasBit(plic'.pending, i) /\ ~HasBit(plic.pending, i)

C11_DeviceAccessDefers ==
    [][/\ DeviceAccess =>
            /\ csr' = csr
            /\ plic' = plic
            /\ irqs_to_raise' \in {irqs_to_raise, Append(irqs_to_raise, AccessedIrq)}
            /\ (last'.op \in {"uart_write", "notify"} /\ last'.v = 1) =>
                    irqs_to_raise' = Append(irqs_to_raise, AccessedIrq)
            /\ (last'.op = "uart_read" /\ uart'.is_interrupting) =>
                    irqs_to_raise' = Append(irqs_to_raise, AccessedIrq)
       /\ NewlyPending => last'.op = "tick"]_vars

\* a notify that reported is_interrupting: the IRQ waits in the queue, is
\* not pending, and mip is still 0
C11_Witness ==
    /\ last.op = "notify"
    /\ last.v = 1
    /\ last.a = IRQ_VirtioNet
    /\ irqs_to_raise = <<IRQ_VirtioNet>>
    /\ ~HasBit(plic.pending, IRQ_VirtioNet)
    /\ plic.interrupting_irq = IRQ_None
    /\ csr.mip = Zero32

(***************************************************************************)
(* C12. Each call of bus.tick removes at most one entry from the deferred  *)
(* IRQ queue, always the oldest one, and sets pending in the PLIC only     *)
(* that IRQ; entries leave the queue in the order they were appended.      *)
(***************************************************************************)
\* what the devices' ticks append, in the order of Bus.devices
TickAppends ==
    {<<>>, <<IRQ_Uart>>, <<IRQ_VirtioNet>>, <<IRQ_Uart, IRQ_VirtioNet>>}

C12_TickPopsOldest ==
    [][last'.op = "tick" =>
        \/ /\ irqs_to_raise' = irqs_to_raise
           /\ plic' = plic
        \/ \E new \in TickAppends :
              LET q == irqs_to_raise \o new
              IN  /\ q # <<>>
                  /\ irqs_to_raise' = Tail(q)
                  /\ plic'.pending = Or32(plic.pending, BitOf(Head(q)))
                  /\ \A i \in 0 .. PLIC_NUM - 1 :
                        (i # Head(q)) =>
                            (HasBit(plic'.pending, i) <=> HasBit(plic.pending, i))]_vars

\* a tick on a queue of two: the older left and is pending, the newer waits
C12_Witness ==
    /\ last.op = "tick"
    /\ last.v = IRQ_VirtioGpu
    /\ irqs_to_raise = <<IRQ_VirtioNet>>
    /\ HasBit(plic.pending, IRQ_VirtioGpu)
    /\ ~HasBit(plic.pending, IRQ_VirtioNet)

(***************************************************************************)
(* C19. A CSR write to mip changes only the SEIP and SSIP bits: MEIP,      *)
(* MTIP, STIP and MSIP hold the same values after the write as before it,  *)
(* for every written value.                                                *)
(***************************************************************************)
HardwareIp == Or32(IP_MEIP, Or32(IP_MTIP, Or32(IP_STIP, IP_MSIP)))

MipWritten == last'.op = "csr_write" /\ last'.a = MIP /\ last'.r = "ok"

\* the claim as stated; the write replaces the whole register by
\* value & MIP_SUPPORTED, so a pending MEIP or MTIP is lost
C19_Original ==
    [][MipWritten => And32(csr'.mip, HardwareIp) = And32(csr.mip, HardwareIp)]_vars

(***************************************************************************)
(* C20. For each counter of cycle, time and instret (low and high alias)   *)
(* and its bit CY, TM or IR: after Machine software has written mcounteren *)
(* and scounteren, a read of the counter succeeds at Machine always, at    *)
(* Supervisor exactly when the bit was last written 1 in mcounteren, and   *)
(* at User exactly when it was last written 1 in both mcounteren and       *)
(* scounteren; otherwise the read is IllegalInstruction.                   *)
(***************************************************************************)
CounterBit(addr) ==
    CASE addr \in {CYCLE, CYCLEH} -> COUNTEREN_CY
      [] addr \in {TIME, TIMEH} -> COUNTEREN_TM
      [] addr \in {INSTRET, INSTRETH} -> COUNTEREN_IR

\* x5 and x6 hold what was written to mcounteren and to scounteren
WrittenM(addr) == And32(regs[5], CounterBit(addr)) # Zero32
WrittenS(addr) == And32(regs[6], CounterBit(addr)) # Zero32

CounterAllowed(addr) ==
    \/ prv = Machine
    \/ prv = Supervisor /\ WrittenM(addr)
    \/ prv = User /\ WrittenM(addr) /\ WrittenS(addr)

CounterReadStep == nops >= 3 /\ last'.op = "csr_read" /\ last'.a \in CounterCsrs

\* the claim as stated; IR is outside MCOUNTEREN_SUPPORTED, so a 1 written to
\* mcounteren.IR is dropped and instret stays refused below Machine
C20_Original ==
    [][CounterReadStep =>
        IF CounterAllowed(last'.a) THEN last'.r = "ok"
        ELSE last'.r = "trap" /\ last'.e = IlligalInstruction]_vars

(***************************************************************************)
(* C13. With Sv32 enabled, a root page table whose level-1 entry for the   *)
(* address is 0 (V=0), and load page faults delegated to Supervisor: a     *)
(* load from virtual address 0x40000000 executed in Supervisor raises      *)
(* LoadPageFault and trap entry leaves stval = 0x40000000, scause = 13 and *)
(* sepc = the PC of the faulting load, with no register written by the     *)
(* load.                                                                   *)
(***************************************************************************)
\* the level-1 entry of the root page table for va, read from memory
RootEntry(va) ==
    MemRead(memory, Add32(PageBase(GetSatpPpn(csr)[1] * Half + GetSatpPpn(csr)[2]),
                          U((va[1] \div 64) * 4)))

\* the unprimed state is the one the claim describes
C13_Setting ==
    /\ prv = Supervisor
    /\ csr.satp[1] >= 32768
    /\ RootEntry(FaultAddr) = Zero32
    /\ Bit32(csr.medeleg, 13) = 1

C13_LoadPageFault ==
    [][/\ (C13_Setting /\ phase = "step" /\ last'.op = "load" /\ last'.x = FaultAddr) =>
              /\ last'.r = "err"
              /\ last'.e = LoadPageFault
              /\ phase' = "trap"
              /\ regs' = regs
              /\ pc' = pc
       /\ (C13_Setting /\ phase = "trap" /\ last.op = "load" /\ last.x = FaultAddr) =>
              /\ last'.r = "trap"
              /\ csr'.stval = FaultAddr
              /\ csr'.scause = U(13)
              /\ csr'.sepc = pc
              /\ prv' = Supervisor
              /\ regs' = regs]_vars

\* the first instruction was the load, and its trap has been entered
C13_Witness ==
    /\ nops = 1
    /\ last.op = "trap"
    /\ last.e = LoadPageFault
    /\ RootEntry(FaultAddr) = Zero32
    /\ prv = Supervisor
    /\ pc = HandlerS
    /\ csr.stval = FaultAddr
    /\ csr.scause = U(13)
    /\ csr.sepc = MEMORY_BASE
    /\ regs = [RegistersDefault EXCEPT ![5] = PteData]

(***************************************************************************)
(* C14. Whenever a step returns a page-fault or an address-misaligned      *)
(* trap, fault_addr already holds the faulting address; the trap handler   *)
(* writes exactly that address to mtval/stval and leaves fault_addr empty, *)
(* so fault_addr is empty at the start of every step and is consumed       *)
(* exactly once per latch.                                                 *)
(***************************************************************************)
AddressTraps ==
    {InstructionPageFault, LoadPageFault, StoreOrAMOPageFault,
     InstructionAddressMisaligned, U(4), StoreOrAMOAddressMisaligned}

\* the claim as stated; last.x is the address the failed instruction used.
\* The AMO alignment check and a failed read of a page-table entry return
\* their trap without the latch.
C14_Original ==
    [][/\ (phase = "step" /\ phase' = "trap" /\ last'.e \in AddressTraps) =>
              fault_addr' = SomeAddr(last'.x)
       /\ (phase = "trap" /\ last.e \in AddressTraps) =>
              /\ last'.r = "trap"
              /\ (IF prv' = Machine THEN csr'.mtval ELSE csr'.stval) = last.x
              /\ fault_addr' = NoAddr
       /\ (phase' = "step" => fault_addr' = NoAddr)]_vars

(***************************************************************************)
(* C15. After an SFENCE.VMA that executes without trapping, the TLB holds  *)
(* no consumable entry: every later translation in a translated mode       *)
(* performs a page walk until that walk itself inserts an entry, for every *)
(* virtual address and privilege.                                          *)
(*                                                                         *)
(* The hart keeps no translations, so the walk is observed by its result:  *)
(* the access that follows the SFENCE.VMA sees the root entry that memory  *)
(* holds now, whatever an earlier translation of the address found.        *)
(***************************************************************************)
SfenceDone == phase = "step" /\ last.op = "sfence" /\ last.r = "ok"

TranslatedAccess(va) ==
    /\ prv # Machine
    /\ csr.satp[1] >= 32768
    /\ last'.op \in {"load", "store", "lr"}
    /\ last'.x = va

C15_SfenceThenWalk ==
    [][(SfenceDone /\ TranslatedAccess(FaultAddr)) =>
          IF RootEntry(FaultAddr) = Zero32
          THEN /\ last'.r = "err"
               /\ last'.e \in {LoadPageFault, StoreOrAMOPageFault}
               /\ fault_addr' = SomeAddr(FaultAddr)
               /\ memory' = memory
               /\ regs' = regs
          ELSE /\ RootEntry(FaultAddr) = PteData
               /\ last'.r = "ok"
               /\ last'.op \in {"load", "lr"} => regs'[7] = MemRead(memory, PaData)
               /\ last'.op = "store" => MemRead(memory', PaData) = regs[last'.a]]_vars

\* an LR.W through 0x40000000 succeeded in Supervisor, then the root entry
\* was cleared and SFENCE.VMA executed
C15_Witness ==
    /\ SfenceDone
    /\ nops = 3
    /\ prv = Supervisor
    /\ reserved_addr = SomeAddr(FaultAddr)
    /\ RootEntry(FaultAddr) = Zero32

(***************************************************************************)
(* C16. For every physical address outside the mapped ranges (CLINT, PLIC, *)
(* UART, virtio-net, virtio-GPU, RAM), a bus access returns the            *)
(* access-fault trap of its access type - an instruction-fetch fault for   *)
(* Fetch, LoadAccessFault for Read, StoreOrAMOAccessFault for Write - and  *)
(* changes no device, memory or CSR state.                                 *)
(***************************************************************************)
\* Trap has no variant for it; 1 is the cause of an instruction access fault
InstructionAccessFault == U(1)

\* an access of the hart in Machine, where the address is the physical one
UnmappedAccess(opname) ==
    /\ phase = "step"
    /\ prv = Machine
    /\ last'.op = opname
    /\ Unmapped(last'.x)

AccessFaults(e) ==
    /\ last'.r = "err"
    /\ last'.e = e
    /\ phase' = "trap"
    /\ UNCHANGED <<csr, memory, plic, uart, irqs_to_raise>>

\* the claim as stated; the fetch of an unmapped address reaches the todo!()
\* of AccessType::into_trap and the simulator panics
C16_Original ==
    [][/\ UnmappedAccess("fetch") => AccessFaults(InstructionAccessFault)
       /\ UnmappedAccess("load") => AccessFaults(LoadAccessFault)
       /\ UnmappedAccess("store") => AccessFaults(StoreOrAMOAccessFault)]_vars

(***************************************************************************)
(* C17. SC.W to address a stores rs2 and writes 0 to rd exactly when a     *)
(* reservation on a is held from an earlier LR.W with no SC.W in between;  *)
(* otherwise it writes 1 to rd and leaves memory unchanged; after any      *)
(* SC.W that completes the reservation is empty, so a second SC.W without  *)
(* a new LR.W always fails.                                                *)
(*                                                                         *)
(* reserved_addr is that reservation: empty at reset, set to a by an LR.W  *)
(* on a that completes, emptied by an SC.W that completes, and left alone  *)
(* by every other step.                                                    *)
(***************************************************************************)
Completed(opname) == phase = "step" /\ last'.op = opname /\ last'.r = "ok"

\* the word of RAM behind va for the hart's mode
PaOf(va) == IF va = FaultAddr THEN PaData ELSE va

C17_StoreConditional ==
    [][/\ Completed("lr") => reserved_addr' = SomeAddr(last'.x)
       /\ Completed("sc") =>
              /\ IF reserved_addr = SomeAddr(last'.x)
                 THEN /\ regs'[7] = Zero32
                      /\ memory' = [memory EXCEPT ![PaOf(last'.x)] = regs[5]]
                 ELSE /\ regs'[7] = U(1)
                      /\ memory' = memory
              /\ reserved_addr' = NoAddr
       /\ ~(Completed("lr") \/ Completed("sc")) => reserved_addr' = reserved_addr]_vars

\* LR.W and then SC.W on 0x80003000: the SC.W stored x5 and wrote 0 to x7
C17_Witness ==
    /\ last.op = "sc"
    /\ last.r = "ok"
    /\ last.x = VaData
    /\ nops = 2
    /\ regs[7] = Zero32
    /\ memory[VaData] = regs[5]
    /\ reserved_addr = NoAddr

(***************************************************************************)
(* C18. Every trap entry (exception or interrupt) clears the reservation:  *)
(* an SC.W executed after a trap has been taken since the last LR.W writes *)
(* 1 to rd and leaves memory unchanged.                                    *)
(***************************************************************************)
TrapEntry == phase = "trap" /\ last'.op = "trap" /\ last'.r = "trap"

\* the claim as stated; Cpu::handle_trap does not assign reserved_addr, so
\* the reservation of an LR.W survives the trap and the SC.W succeeds
C18_Original == [][TrapEntry => reserved_addr' = NoAddr]_vars

(***************************************************************************)
(* csr.rs: the counters and the timer. progress_cycle, progress_time and   *)
(* progress_instret end an iteration of the run loop; set_mip_msip,        *)
(* set_mtimecmp and set_mtimecmph serve the CLINT.                         *)
(***************************************************************************)
ProgressCycle(c) ==
    IF And32(c.mcountinhibit, COUNTEREN_CY) = Zero32
    THEN [c EXCEPT !.cycle = WrappingInc64(@)] ELSE c

\* mutant: the timer re-evaluates MTIP alone
ProgressTime_MtipOnly(c) ==
    LET t == WrappingInc64(c.time)
        m == IF Ge64(t, c.mtimecmp) THEN Or32(c.mip, IP_MTIP)
             ELSE And32(c.mip, Not32(IP_MTIP))
    IN  [c EXCEPT !.time = t, !.mip = m]

ProgressTime(c) ==
    LET t == WrappingInc64(c.time)
        m == IF Ge64(t, c.mtimecmp) THEN Or32(c.mip, IP_MTIP)
             ELSE And32(c.mip, Not32(IP_MTIP))
        s == IF Ge64(t, c.stimecmp) THEN Or32(m, IP_STIP)
             ELSE And32(m, Not32(IP_STIP))
    IN  [c EXCEPT !.time = t, !.mip = s]

\* mutant: the retire count ignores the flag a minstret write sets
ProgressInstret_Always(c) ==
    IF And32(c.mcountinhibit, COUNTEREN_IR) = Zero32
    THEN [c EXCEPT !.instret = WrappingInc64(@), !.suppress_minsret = FALSE]
    ELSE [c EXCEPT !.suppress_minsret = FALSE]

ProgressInstret(c) ==
    IF ~c.suppress_minsret
    THEN IF And32(c.mcountinhibit, COUNTEREN_IR) = Zero32
         THEN [c EXCEPT !.instret = WrappingInc64(@)] ELSE c
    ELSE [c EXCEPT !.suppress_minsret = FALSE]

IP_MSIP_POS == 3
GetMipMsip(c) == U(Bit32(c.mip, IP_MSIP_POS))
SetMipMsip(c, msip) ==
    [c EXCEPT !.mip = Or32(And32(@, Not32(IP_MSIP)), ShlField(msip[2] % 2, IP_MSIP_POS))]

SetMtimecmp(c, value) ==
    LET mtimecmp == <<c.mtimecmp[1], value>>
    IN  [c EXCEPT !.mip = IF Gt64(mtimecmp, c.time) THEN And32(@, Not32(IP_MTIP))
                          ELSE Or32(@, IP_MTIP),
                  !.mtimecmp = mtimecmp]

\* the else branch is `self.mip & IP_MTIP` in the source
SetMtimecmph(c, value) ==
    LET mtimecmp == <<value, c.mtimecmp[2]>>
    IN  [c EXCEPT !.mip = IF Gt64(mtimecmp, c.time) THEN And32(@, Not32(IP_MTIP))
                          ELSE And32(@, IP_MTIP),
                  !.mtimecmp = mtimecmp]

(***************************************************************************)
(* bus/clint.rs: Clint::read_u32 and Clint::write_u32. A result is         *)
(* [err, value / csr]; err is "trap" for ctx.make_trap().                  *)
(***************************************************************************)
CLINT_MSIP == 0
CLINT_MTIMECMP == 16384
CLINT_MTIMECMPH == 16388

ClintReadU32(c, offset) ==
    IF offset = CLINT_MSIP THEN [err |-> "ok", value |-> GetMipMsip(c)]
    ELSE [err |-> "trap", value |-> Zero32]

ClintWriteU32(c, offset, value) ==
    CASE offset = CLINT_MSIP -> [err |-> "ok", csr |-> SetMipMsip(c, And32(value, U(1)))]
      [] offset = CLINT_MTIMECMP -> [err |-> "ok", csr |-> SetMtimecmp(c, value)]
      [] offset = CLINT_MTIMECMPH -> [err |-> "ok", csr |-> SetMtimecmph(c, value)]
      [] OTHER -> [err |-> "trap", csr |-> c]

(***************************************************************************)
(* The run loop with its counters (Cpu::run, Simulator::run): Bus::tick    *)
(* with idle devices, the interrupt check, Cpu::step (phase "step", one    *)
(* action per instruction, the result kept in last: r is "ok" for          *)
(* Ok(false), "jump" for Ok(true), "trap" for Err(e)), then the match on   *)
(* that result and progress_cycle, progress_time (phase "retire").         *)
(* Machine software runs bare; nops counts the iterations.                 *)
(***************************************************************************)
MaxTimerOps == 2
TimerVals == {Zero32, U(1), Not32(Zero32)}
TimerCsrs == {MINSTRET, MINSTRETH, MCOUNTINHIBIT, STIMECMP, STIMECMPH}
ClintOffsets == {CLINT_MSIP, CLINT_MTIMECMP, CLINT_MTIMECMPH, 8}
\* counter values an earlier run leaves: the low word about to carry
CounterStarts == {Zero64, <<Zero32, Not32(Zero32)>>}

InitTimer ==
    /\ prv = Machine
    /\ pc = MEMORY_BASE
    /\ \E ie \in {Zero32, IP_STIP}, t \in CounterStarts, i \in CounterStarts :
          /\ t = Zero64 => i = Zero64
          /\ csr = [CsrDefault EXCEPT !.mstatus = STATUS_MIE, !.mtvec = HandlerM,
                                      !.mie = ie, !.time = t, !.cycle = t,
                                      !.instret = i,
                                      !.mip = IF t = Zero64 THEN Zero32
                                              ELSE Or32(IP_MTIP, IP_STIP)]
    /\ plic = PlicDefault
    /\ irqs_to_raise = <<>>
    /\ uart = UartDefault
    /\ phase = "tick"
    /\ nops = 0
    /\ last = NoOp
    /\ CoreReset
    /\ virtio = VirtioIdle

TimerTick ==
    /\ nops < MaxTimerOps
    /\ Tick(FALSE, FALSE)

TimerIntr ==
    /\ nops < MaxTimerOps
    /\ Intr

\* Cpu::step leaves pc, prv and the devices alone in the instructions below
TimerStep(op, a, e, x, r) ==
    /\ StepReady
    /\ phase' = IF r = "panic" THEN "panic" ELSE "retire"
    /\ last' = Op(op, a, e, x, r, 0)
    /\ UNCHANGED <<prv, pc, plic, irqs_to_raise, uart, nops>>
    /\ UNCHANGED <<cpuvars, virtio>>

TimerNop ==
    /\ TimerStep("nop", 0, Zero32, Zero32, "ok")
    /\ UNCHANGED csr

\* JAL x0, 0: the jump writes pc itself
TimerJump ==
    /\ TimerStep("jump", 0, Zero32, pc, "jump")
    /\ UNCHANGED csr

TimerEcall ==
    /\ TimerStep("ecall", 0, EcallTrap(prv), Zero32, "trap")
    /\ UNCHANGED csr

\* csrrw x0, addr, x5 with x5 = value
TimerCsrw(addr, value) ==
    LET w == CsrWrite(csr, addr, value, prv)
    IN  CASE w.err = "ok" ->
               /\ TimerStep("csrw", addr, Zero32, value, "ok")
               /\ csr' = w.csr
          [] w.err = "illegal" ->
               /\ TimerStep("csrw", addr, IlligalInstruction, CsrwInst(addr), "trap")
               /\ UNCHANGED csr
          [] OTHER ->
               /\ TimerStep("csrw", addr, UnimplementedCSR, value, "panic")
               /\ UNCHANGED csr

\* sw x5, offset(x6) with x6 = CLINT_BASE and x5 = value: Bus::write hands
\* the store to the CLINT
TimerClintStore(offset, value) ==
    LET w == ClintWriteU32(csr, offset, value)
    IN  IF w.err = "ok"
        THEN /\ TimerStep("clint", offset, Zero32, value, "ok")
             /\ csr' = w.csr
        ELSE /\ TimerStep("clint", offset, StoreOrAMOAccessFault, Zero32, "trap")
             /\ UNCHANGED csr

\* the match on the result of Cpu::step, then progress_cycle, progress_time
Retire ==
    /\ phase = "retire"
    /\ IF last.r = "trap"
       THEN LET t == HandleTrap(csr, prv, last.e, pc, last.x)
            IN  /\ csr' = ProgressTime(ProgressCycle(t.csr))
                /\ pc' = t.pc
                /\ prv' = t.prv
       ELSE /\ csr' = ProgressTime(ProgressCycle(ProgressInstret(csr)))
            /\ pc' = IF last.r = "jump" THEN pc ELSE Add32(pc, U(4))
            /\ UNCHANGED prv
    /\ phase' = "tick"
    /\ nops' = nops + 1
    /\ UNCHANGED <<plic, irqs_to_raise, uart, last>>
    /\ UNCHANGED <<cpuvars, virtio>>

TimerWrites == \E addr \in TimerCsrs, value \in TimerVals : TimerCsrw(addr, value)
TimerStores == \E offset \in ClintOffsets, value \in TimerVals : TimerClintStore(offset, value)

NextTimer ==
    \/ TimerTick \/ TimerIntr \/ TimerNop \/ TimerJump \/ TimerEcall
    \/ TimerWrites \/ TimerStores \/ Retire

SpecTimer == InitTimer /\ [][NextTimer]_vars


(***************************************************************************)
(* C21: a 4-byte store to the CLINT's mtimecmp low (0x4000) or mtimecmp    *)
(* high (0x4004) replaces only that half of the 64-bit compare value, and  *)
(* afterwards mip.MTIP is set exactly when time >= mtimecmp while every    *)
(* other bit of mip keeps its value.                                       *)
(***************************************************************************)
MtimecmpStore ==
    /\ phase = "step"
    /\ phase' = "retire"
    /\ last'.op = "clint"
    /\ last'.a \in {CLINT_MTIMECMP, CLINT_MTIMECMPH}

C21_Original ==
    [][MtimecmpStore =>
         /\ csr'.mtimecmp = IF last'.a = CLINT_MTIMECMP
                             THEN <<csr.mtimecmp[1], last'.x>>
                             ELSE <<last'.x, csr.mtimecmp[2]>>
         /\ (And32(csr'.mip, IP_MTIP) # Zero32) <=> Ge64(csr'.time, csr'.mtimecmp)
         /\ And32(csr'.mip, Not32(IP_MTIP)) = And32(csr.mip, Not32(IP_MTIP))]_vars

\* the store to mtimecmp low alone
C21_LowHalf ==
    [][(MtimecmpStore /\ last'.a = CLINT_MTIMECMP) =>
         /\ csr'.mtimecmp = <<csr.mtimecmp[1], last'.x>>
         /\ (And32(csr'.mip, IP_MTIP) # Zero32) <=> Ge64(csr'.time, csr'.mtimecmp)
         /\ And32(csr'.mip, Not32(IP_MTIP)) = And32(csr.mip, Not32(IP_MTIP))]_vars

(***************************************************************************)
(* Cpu::check_local_intrrupt_active on the pending and enabled interrupts  *)
(* software and the devices can produce: mip holds SSIP (written), SEIP    *)
(* (PLIC), STIP and MTIP (timer); mie and mideleg are written by Machine   *)
(* software. last keeps the result: r is "none" for None, "trap" for       *)
(* Some(e), "panic" when resolve_pending panics.                           *)
(***************************************************************************)
PendingBits == {IP_SSIP, IP_STIP, IP_SEIP, IP_MTIP}
RECURSIVE OrAll(_)
OrAll(S) == IF S = {} THEN Zero32 ELSE LET b == CHOOSE x \in S : TRUE
                                       IN  Or32(b, OrAll(S \ {b}))
IpVals == {OrAll(S) : S \in SUBSET PendingBits}

InitPending ==
    /\ prv \in Privs
    /\ pc = MEMORY_BASE
    /\ \E ip \in IpVals, ie \in IpVals, id \in {Zero32, IP_SEIP, SIE_SUPPORTED},
          ms \in {Zero32, STATUS_MIE, STATUS_SIE, Or32(STATUS_MIE, STATUS_SIE)} :
          csr = [CsrDefault EXCEPT !.mip = ip, !.mie = ie, !.mideleg = id,
                                   !.mstatus = ms]
    /\ plic = PlicDefault
    /\ irqs_to_raise = <<>>
    /\ uart = UartDefault
    /\ phase = "intr"
    /\ nops = 0
    /\ last = NoOp
    /\ CoreReset
    /\ virtio = VirtioIdle

CheckLocalIntrruptActive ==
    /\ phase = "intr"
    /\ LET r == ResolvePending(csr, prv)
       IN  last' = Op("pending", 0, r.e, Zero32, r.kind, 0)
    /\ phase' = IF last'.r = "panic" THEN "panic" ELSE "step"
    /\ UNCHANGED <<prv, pc, csr, plic, irqs_to_raise, uart, nops>>
    /\ UNCHANGED <<cpuvars, virtio>>

NextPending == CheckLocalIntrruptActive

SpecPending == InitPending /\ [][NextPending]_vars

(***************************************************************************)
(* C22: resolve_pending(prv) returns None when mip AND mie = 0, when prv   *)
(* is Machine and mstatus.MIE = 0, or when prv is Supervisor, some active  *)
(* bit is delegated in mideleg and mstatus.SIE = 0; otherwise it returns   *)
(* the highest-priority active supervisor interrupt, External before       *)
(* Software before Timer; it changes no CSR.                               *)
(***************************************************************************)
PendingGated(c, p) ==
    \/ And32(c.mip, c.mie) = Zero32
    \/ p = Machine /\ And32(c.mstatus, STATUS_MIE) = Zero32
    \/ /\ p = Supervisor
       /\ And32(And32(c.mip, c.mie), c.mideleg) # Zero32
       /\ And32(c.mstatus, STATUS_SIE) = Zero32

HighestSupervisor(c) ==
    LET active == And32(c.mip, c.mie)
    IN  IF And32(active, IP_SEIP) # Zero32 THEN SupervisorExternalInterrupt
        ELSE IF And32(active, IP_SSIP) # Zero32 THEN SupervisorSoftwareInterrupt
        ELSE SupervisorTimerInterrupt

C22_Original ==
    [][phase = "intr" /\ last'.op = "pending" =>
         /\ csr' = csr
         /\ IF PendingGated(csr, prv) THEN last'.r = "none"
            ELSE last'.r = "trap" /\ last'.e = HighestSupervisor(csr)]_vars

\* with an active supervisor interrupt the result is the one stated
C22_SupervisorActive ==
    [][(/\ phase = "intr" /\ last'.op = "pending"
        /\ And32(And32(csr.mip, csr.mie), SIE_SUPPORTED) # Zero32) =>
         /\ csr' = csr
         /\ IF PendingGated(csr, prv) THEN last'.r = "none"
            ELSE last'.r = "trap" /\ last'.e = HighestSupervisor(csr)]_vars

(***************************************************************************)
(* C23: in every iteration of the run loop, if step returns Ok, instret    *)
(* advances by exactly one (unless inhibited or suppressed by a minstret   *)
(* write) and pc advances by 4 exactly when is_jump is false; if step      *)
(* returns a trap, instret is unchanged and pc and the privilege are those *)
(* trap entry returns; cycle and time advance once per iteration in both   *)
(* cases.                                                                  *)
(***************************************************************************)
Retiring == phase = "retire" /\ phase' = "tick"

\* what the match on the result of step leaves in instret, pc and prv
RetiredStep ==
    IF last.r = "trap"
    THEN /\ csr'.instret = csr.instret
         /\ pc' = HandleTrap(csr, prv, last.e, pc, last.x).pc
         /\ prv' = HandleTrap(csr, prv, last.e, pc, last.x).prv
    ELSE /\ csr'.instret =
               IF csr.suppress_minsret \/ And32(csr.mcountinhibit, COUNTEREN_IR) # Zero32
               THEN csr.instret ELSE WrappingInc64(csr.instret)
         /\ pc' = IF last.r = "jump" THEN pc ELSE Add32(pc, U(4))
         /\ prv' = prv

IterationEnded == phase = "tick" /\ nops > 0

C29_TimerPending ==
    IterationEnded =>
        /\ (And32(csr.mip, IP_MTIP) # Zero32) <=> Ge64(csr.time, csr.mtimecmp)
        /\ (And32(csr.mip, IP_STIP) # Zero32) <=> Ge64(csr.time, csr.stimecmp)

\* an iteration whose store moved mtimecmp above time, and stimecmp still
\* at its reset value
C29_Witness ==
    /\ IterationEnded
    /\ last.op = "clint"
    /\ last.a = CLINT_MTIMECMPH
    /\ Gt64(csr.mtimecmp, csr.time)
    /\ And32(csr.mip, IP_MTIP) = Zero32
    /\ And32(csr.mip, IP_STIP) # Zero32

(***************************************************************************)
(* C30: minstret and minstreth project the 64-bit instret: after writing v *)
(* to minstreth, minstreth and instreth both read v and minstret reads     *)
(* what it read before; after writing v to minstret, minstret reads v and  *)
(* minstreth reads what it read before; an increment that overflows the    *)
(* low word adds one to the high word.                                     *)
(***************************************************************************)
\* what csrr reads in Machine mode
ReadM(c, addr) == CsrRead(c, addr, Machine).value

InstretWrite(addr) ==
    /\ phase = "step"
    /\ phase' = "retire"
    /\ last'.op = "csrw"
    /\ last'.r = "ok"
    /\ last'.a = addr

InstretCarry ==
    /\ Retiring
    /\ csr'.instret # csr.instret
    /\ ReadM(csr, MINSTRET) = Not32(Zero32)

C30_Original ==
    [][/\ InstretWrite(MINSTRETH) =>
            /\ ReadM(csr', MINSTRETH) = last'.x
            /\ ReadM(csr', INSTRETH) = last'.x
            /\ ReadM(csr', MINSTRET) = ReadM(csr, MINSTRET)
       /\ InstretWrite(MINSTRET) =>
            /\ ReadM(csr', MINSTRET) = last'.x
            /\ ReadM(csr', MINSTRETH) = ReadM(csr, MINSTRETH)
       /\ InstretCarry =>
            /\ ReadM(csr', MINSTRET) = Zero32
            /\ ReadM(csr', INSTRETH) = Add32(ReadM(csr, INSTRETH), U(1))]_vars

\* the parts that hold: the low word written through minstret, and the carry
C30_LowWordAndCarry ==
    [][/\ InstretWrite(MINSTRET) =>
            /\ ReadM(csr', MINSTRET) = last'.x
            /\ ReadM(csr', INSTRETH) = ReadM(csr, INSTRETH)
       /\ InstretCarry =>
            /\ ReadM(csr', MINSTRET) = Zero32
            /\ ReadM(csr', INSTRETH) = Add32(ReadM(csr, INSTRETH), U(1))]_vars

(***************************************************************************)
(* bus/uart.rs: the register model of the Uart. Registers are bytes;       *)
(* input_buf is the Vec<char> of the Uart and input_rx the characters the  *)
(* host has sent on the input channel and Uart::tick has not received yet. *)
(* The two-flag record above is this one restricted to is_interrupting and *)
(* is_taken_interrupt.                                                     *)
(***************************************************************************)
IER_ERBFI == 1
IER_ETBEI == 2
IIR_NIP == 1
IIR_THRE == 2
IIR_RDA == 4
IIR_ID == 6
LSR_THRE == 32
LSR_TEMT == 64
LSR_DR == 1
UART_IER == 1
UART_IIR == 2
UART_LCR == 3

\* a | b, a & !b and a ^ b on bytes
ByteOr(a, b) == a + b - BitAnd(a, b)
ByteClear(a, b) == a - BitAnd(a, b)
ByteXor(a, b) == a + b - 2 * BitAnd(a, b)

\* Uart::new
UartNew ==
    [lcr |-> 0, dlm |-> 0, dll |-> 0, lsr |-> ByteOr(LSR_TEMT, LSR_THRE), ier |-> 0,
     rbr |-> 0, iir |-> IIR_NIP, is_interrupting |-> FALSE,
     is_taken_interrupt |-> FALSE, input_buf |-> <<>>, input_rx |-> <<>>]

IsDlabEnabled(u) == u.lcr \div 128 = 1

RaiseInterruptUart(u, iir) ==
    [u EXCEPT !.is_interrupting = TRUE, !.is_taken_interrupt = FALSE, !.iir = iir]

LowerInterruptUart(u) ==
    [u EXCEPT !.is_interrupting = FALSE, !.iir = IIR_NIP,
              !.lsr = ByteOr(LSR_THRE, LSR_TEMT)]

TakeInterruptUart(u) == [u EXCEPT !.is_taken_interrupt = TRUE]

\* `c as u8` keeps the low byte of the character
PushChar(u, c) ==
    RaiseInterruptUart([u EXCEPT !.rbr = c % 256, !.lsr = ByteOr(@, LSR_DR)], IIR_RDA)

\* the test is `self.ier & 0x4` in the source
IsReadyForRecieving(u) == u.iir = 1 /\ BitAnd(u.ier, 4) # 0

\* Uart::tick: [uart, value]; value is the bool returned. Vec::pop takes the
\* last element of input_buf.
UartTick(u) ==
    LET b == IF u.input_rx # <<>> THEN Append(u.input_buf, Head(u.input_rx))
             ELSE u.input_buf
        r == [u EXCEPT !.input_buf = b,
                       !.input_rx = IF @ # <<>> THEN Tail(@) ELSE @]
    IN  IF b # <<>> /\ IsReadyForRecieving(r)
        THEN [uart |-> PushChar([r EXCEPT !.input_buf = SubSeq(b, 1, Len(b) - 1)],
                                b[Len(b)]),
              value |-> TRUE]
        ELSE [uart |-> r, value |-> FALSE]

\* mutant: a read of IIR lowers a THRE interrupt whether or not it was taken
UartRead_IirLowers(u, offset) ==
    CASE offset = UART_RBR ->
           IF IsDlabEnabled(u) THEN [uart |-> u, value |-> u.dll]
           ELSE LET r == [u EXCEPT !.rbr = 0, !.lsr = ByteClear(@, LSR_DR)]
                IN  [uart |-> IF u.is_interrupting THEN LowerInterruptUart(r) ELSE r,
                     value |-> u.rbr]
      [] offset = UART_IER ->
           [uart |-> u, value |-> IF IsDlabEnabled(u) THEN u.dlm ELSE u.ier]
      [] offset = UART_IIR ->
           [uart |-> IF BitAnd(u.iir, IIR_ID) = IIR_THRE
                     THEN LowerInterruptUart(u) ELSE u,
            value |-> u.iir]
      [] offset = UART_LCR -> [uart |-> u, value |-> u.lcr]
      [] offset = UART_LSR -> [uart |-> u, value |-> u.lsr]
      [] OTHER -> [uart |-> u, value |-> 0]

\* Uart::read of one byte: [uart, value]; the response's is_interrupting is
\* that of the Uart afterwards
UartRead(u, offset) ==
    CASE offset = UART_RBR ->
           IF IsDlabEnabled(u) THEN [uart |-> u, value |-> u.dll]
           ELSE LET r == [u EXCEPT !.rbr = 0, !.lsr = ByteClear(@, LSR_DR)]
                IN  [uart |-> IF u.is_interrupting THEN LowerInterruptUart(r) ELSE r,
                     value |-> u.rbr]
      [] offset = UART_IER ->
           [uart |-> u, value |-> IF IsDlabEnabled(u) THEN u.dlm ELSE u.ier]
      [] offset = UART_IIR ->
           [uart |-> IF u.is_taken_interrupt /\ BitAnd(u.iir, IIR_ID) = IIR_THRE
                     THEN LowerInterruptUart(u) ELSE u,
            value |-> u.iir]
      [] offset = UART_LCR -> [uart |-> u, value |-> u.lcr]
      [] offset = UART_LSR -> [uart |-> u, value |-> u.lsr]
      [] OTHER -> [uart |-> u, value |-> 0]

\* Uart::write of one byte: the Uart afterwards (the character written to
\* THR goes to the host's terminal)
UartWrite(u, offset, value) ==
    CASE offset = UART_RBR ->
           IF IsDlabEnabled(u) THEN [u EXCEPT !.dll = value]
           ELSE IF BitAnd(u.ier, IER_ETBEI) # 0 THEN RaiseInterruptUart(u, IIR_THRE)
           ELSE u
      [] offset = UART_IER ->
           IF IsDlabEnabled(u) THEN [u EXCEPT !.dlm = value]
           ELSE LET changed == BitAnd(ByteXor(u.ier, value), 15)
                    w == [u EXCEPT !.ier = value]
                IN  IF BitAnd(changed, IER_ETBEI) # 0
                    THEN IF BitAnd(value, IER_ETBEI) # 0
                         THEN RaiseInterruptUart(w, IIR_THRE)
                         ELSE LowerInterruptUart(w)
                    ELSE w
      [] offset = UART_LCR -> [u EXCEPT !.lcr = value]
      [] OTHER -> u

(***************************************************************************)
(* The Uart between the host and the guest. The host's terminal thread     *)
(* sends characters; Bus::tick calls Uart::tick; the guest reads and       *)
(* writes the registers with byte accesses; Bus::prepare_interrupt calls   *)
(* take_interrupt once the PLIC presents the Uart's IRQ.  last keeps, with *)
(* the operation (a: the offset, x: the byte read or written, v: 1 when    *)
(* the response or the tick reports an interrupt), the characters in the   *)
(* order the host sent them (sent), the bytes in the order they were put   *)
(* in RBR (shown), and whether the Uart has reported an interrupt yet.     *)
(* nops counts the guest's accesses.                                       *)
(***************************************************************************)
MaxUartOps == 3
MaxUartChars == 2
UartChars == {65, 66}
UartOffsets == {UART_RBR, UART_IER, UART_IIR, UART_LCR, UART_LSR}
\* IER: off, ERBFI, the bit Uart::tick tests, and that bit with ETBEI;
\* LCR: DLAB; THR: a character
UartWrites == {<<UART_IER, 0>>, <<UART_IER, 1>>, <<UART_IER, 4>>, <<UART_IER, 6>>,
               <<UART_LCR, 128>>, <<UART_LCR, 0>>, <<UART_RBR, 65>>}

UartOp(o, a, x, v, sent, shown, reported) ==
    [op |-> o, a |-> a, e |-> Zero32, x |-> x, r |-> "ok", v |-> v,
     sent |-> sent, shown |-> shown, reported |-> reported]

InitUart ==
    /\ prv = Machine
    /\ pc = MEMORY_BASE
    /\ csr = CsrDefault
    /\ plic = PlicDefault
    /\ irqs_to_raise = <<>>
    /\ uart = UartNew
    /\ phase = "step"
    /\ nops = 0
    /\ last = UartOp("none", 0, 0, 0, <<>>, <<>>, FALSE)
    /\ CoreReset
    /\ virtio = VirtioIdle

UartIdle == UNCHANGED <<prv, pc, csr, plic, irqs_to_raise, virtio, phase, regs,
                        memory, reserved_addr, fault_addr>>

HostSend(c) ==
    /\ Len(last.sent) < MaxUartChars
    /\ uart' = [uart EXCEPT !.input_rx = Append(@, c)]
    /\ last' = UartOp("send", 0, c, 0, Append(last.sent, c), last.shown, last.reported)
    /\ UNCHANGED nops
    /\ UartIdle

UartTicks ==
    /\ LET t == UartTick(uart)
       IN  /\ uart' = t.uart
           /\ last' = UartOp("tick", 0, t.uart.rbr, IF t.value THEN 1 ELSE 0, last.sent,
                             IF t.value THEN Append(last.shown, t.uart.rbr)
                             ELSE last.shown,
                             last.reported \/ t.value)
    /\ UNCHANGED nops
    /\ UartIdle

UartReads(offset) ==
    /\ nops < MaxUartOps
    /\ LET r == UartRead(uart, offset)
       IN  /\ uart' = r.uart
           /\ last' = UartOp("read", offset, r.value,
                             IF r.uart.is_interrupting THEN 1 ELSE 0,
                             last.sent, last.shown,
                             last.reported \/ r.uart.is_interrupting)
    /\ nops' = nops + 1
    /\ UartIdle

UartWritten(offset, value) ==
    /\ nops < MaxUartOps
    /\ uart' = UartWrite(uart, offset, value)
    /\ last' = UartOp("write", offset, value, IF uart'.is_interrupting THEN 1 ELSE 0,
                      last.sent, last.shown, last.reported \/ uart'.is_interrupting)
    /\ nops' = nops + 1
    /\ UartIdle

UartTaken ==
    /\ last.reported
    /\ uart' = TakeInterruptUart(uart)
    /\ last' = UartOp("take", 0, 0, 0, last.sent, last.shown, last.reported)
    /\ UNCHANGED nops
    /\ UartIdle

HostSends == \E c \in UartChars : HostSend(c)
GuestReads == \E offset \in UartOffsets : UartReads(offset)
GuestWrites == \E w \in UartWrites : UartWritten(w[1], w[2])

NextUart == HostSends \/ UartTicks \/ GuestReads \/ GuestWrites \/ UartTaken

SpecUart == InitUart /\ [][NextUart]_vars

(***************************************************************************)
(* C24: on a tick with a byte waiting in the Uart's input buffer, the Uart *)
(* moves one byte into RBR, sets LSR.DR, sets IIR to RDA and reports an    *)
(* interrupt exactly when it is not interrupting and IER.ERBFI (bit 0 of   *)
(* IER) is set; otherwise the tick leaves RBR, LSR and IIR unchanged.      *)
(***************************************************************************)
\* the buffer Uart::tick looks at, after its try_recv
BufferAtTick(u) ==
    IF u.input_rx # <<>> THEN Append(u.input_buf, Head(u.input_rx)) ELSE u.input_buf

TickWithByte == last'.op = "tick" /\ BufferAtTick(uart) # <<>>

Received ==
    /\ \E i \in 1 .. Len(BufferAtTick(uart)) : uart'.rbr = BufferAtTick(uart)[i] % 256
    /\ Len(uart'.input_buf) = Len(BufferAtTick(uart)) - 1
    /\ BitAnd(uart'.lsr, LSR_DR) # 0
    /\ uart'.iir = IIR_RDA
    /\ last'.v = 1

NotReceived ==
    /\ uart'.rbr = uart.rbr
    /\ uart'.lsr = uart.lsr
    /\ uart'.iir = uart.iir
    /\ last'.v = 0

C24_Original ==
    [][TickWithByte =>
         IF ~uart.is_interrupting /\ BitAnd(uart.ier, IER_ERBFI) # 0
         THEN Received ELSE NotReceived]_vars

\* what the tick does: the bit it tests is bit 2 of IER
C24_Bit2 ==
    [][TickWithByte =>
         IF ~uart.is_interrupting /\ BitAnd(uart.ier, 4) # 0
         THEN Received ELSE NotReceived]_vars

(***************************************************************************)
(* C25: the bytes the host sends on the Uart's input channel are presented *)
(* to the guest through RBR in the order they were sent, also when several *)
(* bytes accumulate in the Uart's buffer while the guest is not ready to   *)
(* receive.                                                                *)
(***************************************************************************)
C25_Original ==
    /\ Len(last.shown) <= Len(last.sent)
    /\ \A i \in 1 .. Len(last.shown) : last.shown[i] = last.sent[i] % 256

\* a byte reaches RBR in order when it was alone in the buffer
C25_LoneByte ==
    [][(last'.op = "tick" /\ last'.v = 1 /\ Len(BufferAtTick(uart)) = 1) =>
         last'.shown = Append(last.shown, BufferAtTick(uart)[1] % 256)]_vars

(***************************************************************************)
(* C28: the Uart's interrupt lifecycle. Raising an interrupt sets          *)
(* is_interrupting, clears is_taken and sets IIR to the cause; while the   *)
(* cause is THRE, a read of IIR lowers the interrupt exactly when          *)
(* take_interrupt has occurred since it was raised, and while the cause is *)
(* RDA a read of IIR never lowers it (only a read of RBR does); lowering   *)
(* sets IIR = IIR_NIP and LSR = THRE|TEMT.                                 *)
(***************************************************************************)
\* the steps that call raise_interrupt, with the cause
RaisedCause ==
    CASE last'.op = "tick" /\ last'.v = 1 -> IIR_RDA
      [] /\ last'.op = "write" /\ last'.a = UART_RBR /\ ~IsDlabEnabled(uart)
         /\ BitAnd(uart.ier, IER_ETBEI) # 0 -> IIR_THRE
      [] /\ last'.op = "write" /\ last'.a = UART_IER /\ ~IsDlabEnabled(uart)
         /\ BitAnd(uart.ier, IER_ETBEI) = 0
         /\ BitAnd(last'.x, IER_ETBEI) # 0 -> IIR_THRE
      [] OTHER -> 0

Lowered == uart.is_interrupting /\ ~uart'.is_interrupting

ReadOf(offset) == last'.op = "read" /\ last'.a = offset /\ nops' = nops + 1

C28_Lifecycle ==
    [][/\ RaisedCause # 0 =>
            /\ uart'.is_interrupting
            /\ ~uart'.is_taken_interrupt
            /\ uart'.iir = RaisedCause
       /\ (ReadOf(UART_IIR) /\ uart.iir = IIR_THRE) =>
            (Lowered <=> uart.is_taken_interrupt)
       /\ (ReadOf(UART_IIR) /\ uart.iir = IIR_RDA) => uart' = uart
       /\ (last'.op = "read" /\ nops' = nops + 1 /\ uart.iir = IIR_RDA) =>
            (Lowered <=> (last'.a = UART_RBR /\ ~IsDlabEnabled(uart)))
       /\ Lowered =>
            /\ uart'.iir = IIR_NIP
            /\ uart'.lsr = ByteOr(LSR_THRE, LSR_TEMT)]_vars

\* a THRE interrupt was raised, taken, and lowered by the read of IIR
C28_Witness ==
    /\ last.op = "read"
    /\ last.a = UART_IIR
    /\ last.x = IIR_THRE
    /\ uart.is_taken_interrupt
    /\ ~uart.is_interrupting
    /\ uart.iir = IIR_NIP

(***************************************************************************)
(* bus/virtio_mmio.rs, bus/virtio_net.rs, bus/virtio_gpu.rs: the virtio    *)
(* transport registers, the split virtqueues in guest RAM, the NOTIFY      *)
(* handlers of the network and GPU devices and their reset.                *)
(*                                                                         *)
(* In SpecVirtio the variable virtio is a record                           *)
(*   dev    the device (VirtioNet or VirtioGpu) with its transport block   *)
(*   rings  for each queue the driver ring and the device ring, which are  *)
(*          views of guest RAM (Memory::raw_ptr at driver_addr and         *)
(*          device_addr); a ring slot that was never written reads 0       *)
(* Ring indices are u16 and wrap at 65536; register values are small       *)
(* naturals.                                                               *)
(***************************************************************************)

U16 == 65536
MAX_QUEUE_SIZE == 256
VIRTIO_NET_RECV_IDX == 0
VIRTIO_NET_TRANS_IDX == 1
VIRTIO_GPU_CONTROL_IDX == 0
VIRTIO_GPU_CURSOR_IDX == 1
VIRTIO_REG_QUEUE_READY == 68
VIRTIO_REG_STATUS == 112
VIRTIO_TYPE_NETWORK == 1
VIRTIO_TYPE_GPU == 16
VIRTIO_NET_FEATURES == <<32, 1, 0, 0>>
VIRTIO_GPU_FEATURES == <<0, 1, 0, 0>>
VIRTIO_NET_HEADER_SIZE == 12
VIRTIO_GPU_HEADER_SIZE == 24
VIRTIO_GPU_RESP_DISPLAY_INFO_SIZE == 408
VIRTQ_DESC_F_NEXT == 1
VIRTQ_DESC_F_WRITE == 2
VIRTIO_STATUS_FAILED == 128

\* VirtioMmio::new
VirtioMmioNew(device_type, features_supported, queue_num, queue_size_max) ==
    [device_type |-> device_type,
     status |-> 0,
     features_sel |-> 0,
     features_supported |-> features_supported,
     driver_features_sel |-> 0,
     driver_features |-> <<0, 0, 0, 0>>,
     queue_sel |-> 0,
     queue_size_max |-> queue_size_max,
     queue_sizes |-> [q \in 1 .. queue_num |-> 0],
     readies |-> [q \in 1 .. queue_num |-> FALSE],
     desc_addrs |-> [q \in 1 .. queue_num |-> 0],
     driver_addrs |-> [q \in 1 .. queue_num |-> 0],
     device_addrs |-> [q \in 1 .. queue_num |-> 0],
     shm_sel |-> 0]

\* VirtioMmio::set_failed: status |= 1 << 7
SetFailed(v) ==
    [v EXCEPT !.status = IF (@ \div VIRTIO_STATUS_FAILED) % 2 = 1
                         THEN @ ELSE @ + VIRTIO_STATUS_FAILED]

\* VirtioMmio::is_ready
IsReady(v, queue_idx) == v.readies[queue_idx + 1]

\* the offsets VirtioMmio::write stores a per-queue value at, with the field
VirtioQueueRegs == {56, 68, 128, 144, 160}

\* VirtioMmio::write for a 4-byte access: the block after the write, and
\* "panic" where the code aborts (write_panic, unimplemented!(), an index
\* past the end of a per-queue vector or of the feature words)
VirtioMmioWrite(v, offset, value) ==
    LET ok(w) == [v |-> w, res |-> "ok"]
        panic == [v |-> v, res |-> "panic"]
        q == v.queue_sel + 1
    IN  IF offset \in VirtioQueueRegs /\ q \notin DOMAIN v.readies THEN panic
        ELSE CASE offset = 20 -> ok([v EXCEPT !.features_sel = value])
               [] offset = 32 ->
                    IF v.driver_features_sel + 1 \notin DOMAIN v.features_supported
                    THEN panic
                    ELSE IF value # v.features_supported[v.driver_features_sel + 1]
                    THEN ok(SetFailed(v))
                    ELSE ok([v EXCEPT !.driver_features[v.driver_features_sel + 1] = value])
               [] offset = 36 -> ok([v EXCEPT !.driver_features_sel = value])
               [] offset = 48 -> ok([v EXCEPT !.queue_sel = value])
               [] offset = 56 -> ok([v EXCEPT !.queue_sizes[q] = value])
               [] offset = VIRTIO_REG_QUEUE_READY ->
                    IF value \in {0, 1}
                    THEN ok([v EXCEPT !.readies[q] = (value = 1)])
                    ELSE panic
               [] offset = 100 -> IF value # 1 THEN panic ELSE ok(v)
               [] offset = VIRTIO_REG_STATUS ->
                    IF value \in {1, 3, 11, 15}
                    THEN ok([v EXCEPT !.status = value])
                    ELSE panic
               [] offset = 128 -> ok([v EXCEPT !.desc_addrs[q] = value])
               [] offset = 144 -> ok([v EXCEPT !.driver_addrs[q] = value])
               [] offset = 160 -> ok([v EXCEPT !.device_addrs[q] = value])
               [] offset \in {132, 148, 164} -> IF value # 0 THEN panic ELSE ok(v)
               [] offset = 172 -> ok([v EXCEPT !.shm_sel = value])
               [] OTHER -> panic

\* VirtioNet::new
VirtioNetNew(input_rx, output_tx) ==
    [virtio |-> VirtioMmioNew(VIRTIO_TYPE_NETWORK, VIRTIO_NET_FEATURES, 2, MAX_QUEUE_SIZE),
     last_idxes |-> <<0, 0>>,
     input_rx |-> <<input_rx>>,
     output_tx |-> output_tx]

\* VirtioGpu::new: no resource, scanout 0 shows resource 0
VirtioGpuNew(output_tx) ==
    [virtio |-> VirtioMmioNew(VIRTIO_TYPE_GPU, VIRTIO_GPU_FEATURES, 2, MAX_QUEUE_SIZE),
     last_idxes |-> <<0, 0>>,
     resources |-> {},
     scanouts |-> <<0>>,
     output_tx |-> output_tx]

IsNet(dev) == dev.virtio.device_type = VIRTIO_TYPE_NETWORK

\* a reset that builds the device on fresh channel endpoints
VirtioNetReset_Fresh(dev) == VirtioNetNew("fresh", "fresh")

\* VirtioNet::reset
VirtioNetReset(dev) == VirtioNetNew(dev.input_rx[1], dev.output_tx)

\* VirtioGpu::reset
VirtioGpuReset(dev) == VirtioGpuNew(dev.output_tx)

\* VirtQueueDriver and VirtQueueDevice of a zeroed region of RAM
RingZero == [driver |-> [idx |-> 0, ring |-> <<>>],
             device |-> [idx |-> 0, elems |-> <<>>]]

\* driver.ring[i]: the slots the driver wrote are kept, the others read 0
RingAt(ring, i) == IF i \in DOMAIN ring THEN ring[i] ELSE 0

\* ring[i] = x
RingPut(ring, i, x) == [j \in DOMAIN ring \cup {i} |-> IF j = i THEN x ELSE ring[j]]

ElemZero == [id |-> 0, len |-> 0]

\* device.elems[i]
ElemAt(elems, i) == IF i \in DOMAIN elems THEN elems[i] ELSE ElemZero

\* last_idx.wrapping_add(i) as usize % MAX_QUEUE_SIZE
RingIdx(last_idx, i) == ((last_idx + i) % U16) % MAX_QUEUE_SIZE

\* driver.idx.wrapping_sub(last_idx)
WrappingSub16(a, b) == (a - b + U16) % U16

\* VirtQueueDesc::is_next, VirtQueueDesc::is_write_only
IsNextDesc(desc) == (desc.flags \div VIRTQ_DESC_F_NEXT) % 2 = 1
IsWriteOnly(desc) == (desc.flags \div VIRTQ_DESC_F_WRITE) % 2 = 1

\* The descriptor table of the network driver: descriptors 0 and 1 hold a
\* header and a frame in one buffer, descriptor 2 is the head of a chain.
NetDescs ==
    [d \in 0 .. 3 |->
       CASE d = 0 -> [len |-> VIRTIO_NET_HEADER_SIZE + 2, flags |-> 0, next |-> 0,
                      data |-> <<"hdr", "frameA">>]
         [] d = 1 -> [len |-> VIRTIO_NET_HEADER_SIZE + 1, flags |-> 0, next |-> 0,
                      data |-> <<"hdr", "frameB">>]
         [] d = 2 -> [len |-> VIRTIO_NET_HEADER_SIZE, flags |-> VIRTQ_DESC_F_NEXT,
                      next |-> 3, data |-> <<"hdr">>]
         [] OTHER -> [len |-> 1, flags |-> 0, next |-> 0, data |-> <<"frameC">>]]

\* The descriptor table of the GPU driver: descriptors 0, 1 and 3 are the
\* heads of two-descriptor chains (a command and a device-writable
\* response buffer), descriptor 2 is a command without a response buffer.
GpuDescs ==
    [d \in 0 .. 5 |->
       CASE d = 0 -> [len |-> VIRTIO_GPU_HEADER_SIZE, flags |-> VIRTQ_DESC_F_NEXT,
                      next |-> 4, data |-> [ctrl_type |-> "CmdGetDisplayInfo"]]
         [] d = 1 -> [len |-> 40, flags |-> VIRTQ_DESC_F_NEXT, next |-> 5,
                      data |-> [ctrl_type |-> "CmdResourceCreate2D",
                                resource_id |-> 1, format |-> 2]]
         [] d = 2 -> [len |-> VIRTIO_GPU_HEADER_SIZE, flags |-> 0, next |-> 0,
                      data |-> [ctrl_type |-> "CmdGetDisplayInfo"]]
         [] d = 3 -> [len |-> 48, flags |-> VIRTQ_DESC_F_NEXT, next |-> 5,
                      data |-> [ctrl_type |-> "CmdResourceFlush", resource_id |-> 1]]
         [] d = 4 -> [len |-> VIRTIO_GPU_RESP_DISPLAY_INFO_SIZE,
                      flags |-> VIRTQ_DESC_F_WRITE, next |-> 0,
                      data |-> [ctrl_type |-> "none"]]
         [] OTHER -> [len |-> VIRTIO_GPU_HEADER_SIZE, flags |-> VIRTQ_DESC_F_WRITE,
                      next |-> 0, data |-> [ctrl_type |-> "none"]]]

\* write_ok_nodata_response: the length of the response, 0 where it aborts
WriteOkNodataResponse(dst_desc) ==
    IF VIRTIO_GPU_HEADER_SIZE > dst_desc.len THEN 0 ELSE VIRTIO_GPU_HEADER_SIZE

\* the result of a NOTIFY: the device, the rings, whether it interrupts,
\* what went out on output_tx, and "panic" where the code aborts
NotifyResult(dev, rings, irq, sent, res) ==
    [dev |-> dev, rings |-> rings, is_interrupting |-> irq, sent |-> sent, res |-> res]

\* a loop that hands on the first new entry only
NetTransmit_FirstOnly(q, last_idx, i, diff, sent) ==
    IF i = diff \/ i = 1 THEN [q |-> q, sent |-> sent, res |-> "ok"]
    ELSE LET ring_idx == RingIdx(last_idx, i)
             desc_idx == RingAt(q.driver.ring, ring_idx)
             desc == NetDescs[desc_idx]
         IN  IF IsNextDesc(desc) \/ desc.len < VIRTIO_NET_HEADER_SIZE
             THEN [q |-> q, sent |-> sent, res |-> "panic"]
             ELSE [q |-> [q EXCEPT !.device.elems =
                                      RingPut(@, ring_idx, [id |-> desc_idx, len |-> 0]),
                                   !.device.idx = (@ + 1) % U16],
                   sent |-> Append(sent, desc.data[2]), res |-> "ok"]

\* the loop of VirtioNet::handle_notify from entry i on; q is the queue's
\* pair of rings, sent the frames handed to output_tx so far
RECURSIVE NetTransmit(_, _, _, _, _)
NetTransmit(q, last_idx, i, diff, sent) ==
    IF i = diff THEN [q |-> q, sent |-> sent, res |-> "ok"]
    ELSE LET ring_idx == RingIdx(last_idx, i)
             desc_idx == RingAt(q.driver.ring, ring_idx)
             desc == NetDescs[desc_idx]
         IN  IF IsNextDesc(desc) \/ desc.len < VIRTIO_NET_HEADER_SIZE
             THEN [q |-> q, sent |-> sent, res |-> "panic"]
             ELSE NetTransmit(
                    [q EXCEPT !.device.elems =
                                  RingPut(@, ring_idx, [id |-> desc_idx, len |-> 0]),
                              !.device.idx = (@ + 1) % U16],
                    last_idx, i + 1, diff, Append(sent, desc.data[2]))

\* VirtioNet::handle_notify
NetHandleNotify(dev, rings, queue_idx) ==
    IF queue_idx + 1 \notin DOMAIN dev.last_idxes
    THEN NotifyResult(dev, rings, FALSE, <<>>, "panic")
    ELSE LET q == rings[queue_idx + 1]
             last_idx == dev.last_idxes[queue_idx + 1]
         IN  IF queue_idx = VIRTIO_NET_RECV_IDX \/ q.driver.idx = last_idx
             THEN NotifyResult(dev, rings, FALSE, <<>>, "ok")
             ELSE LET t == NetTransmit(q, last_idx, 0,
                                       WrappingSub16(q.driver.idx, last_idx), <<>>)
                  IN  IF t.res = "panic"
                      THEN NotifyResult(dev, rings, FALSE, t.sent, "panic")
                      ELSE NotifyResult(
                             [dev EXCEPT !.last_idxes[queue_idx + 1] = q.driver.idx],
                             [rings EXCEPT ![queue_idx + 1] = t.q],
                             TRUE, t.sent, "ok")

\* one command of VirtioGpu::handle_notify: the response length, the
\* resources, what goes out on output_tx, and "panic" where it aborts
GpuCommand(dev, command_desc) ==
    LET second_desc == GpuDescs[command_desc.next]
        ctrl_type == command_desc.data.ctrl_type
        abort == [len |-> 0, dev |-> dev, sent |-> <<>>, res |-> "panic"]
        done(len, d, sent) ==
            IF len = 0 THEN abort
            ELSE [len |-> len, dev |-> d, sent |-> sent, res |-> "ok"]
    IN  IF ~IsNextDesc(command_desc) THEN abort
        ELSE IF IsNextDesc(second_desc) \/ ~IsWriteOnly(second_desc) THEN abort
        ELSE CASE ctrl_type = "CmdGetDisplayInfo" ->
                    IF VIRTIO_GPU_RESP_DISPLAY_INFO_SIZE > second_desc.len THEN abort
                    ELSE done(VIRTIO_GPU_RESP_DISPLAY_INFO_SIZE, dev, <<>>)
               [] ctrl_type = "CmdResourceCreate2D" ->
                    IF command_desc.data.format # 2 THEN abort
                    ELSE done(WriteOkNodataResponse(second_desc),
                              [dev EXCEPT !.resources = @ \cup {command_desc.data.resource_id}],
                              <<>>)
               [] ctrl_type = "CmdResourceFlush" ->
                    done(WriteOkNodataResponse(second_desc), dev,
                         <<[operation |-> "Flush",
                            resource_id |-> command_desc.data.resource_id]>>)
               [] OTHER -> abort

\* the loop of VirtioGpu::handle_notify from entry i on
RECURSIVE GpuProcess(_, _, _, _, _, _)
GpuProcess(dev, q, last_idx, i, diff, sent) ==
    IF i = diff THEN [dev |-> dev, q |-> q, sent |-> sent, res |-> "ok"]
    ELSE LET ring_idx == RingIdx(last_idx, i)
             command_idx == RingAt(q.driver.ring, ring_idx)
             c == GpuCommand(dev, GpuDescs[command_idx])
         IN  IF c.res = "panic"
             THEN [dev |-> dev, q |-> q, sent |-> sent, res |-> "panic"]
             ELSE GpuProcess(
                    c.dev,
                    [q EXCEPT !.device.elems =
                                  RingPut(@, ring_idx, [id |-> command_idx, len |-> c.len]),
                              !.device.idx = (@ + 1) % U16],
                    last_idx, i + 1, diff, sent \o c.sent)

\* VirtioGpu::handle_notify
GpuHandleNotify(dev, rings, queue_idx) ==
    IF queue_idx # VIRTIO_GPU_CONTROL_IDX
    THEN NotifyResult(dev, rings, FALSE, <<>>, "panic")
    ELSE LET q == rings[queue_idx + 1]
             last_idx == dev.last_idxes[queue_idx + 1]
         IN  IF q.driver.idx = last_idx
             THEN NotifyResult(dev, rings, FALSE, <<>>, "ok")
             ELSE LET t == GpuProcess(dev, q, last_idx, 0,
                                      WrappingSub16(q.driver.idx, last_idx), <<>>)
                  IN  IF t.res = "panic"
                      THEN NotifyResult(dev, rings, FALSE, t.sent, "panic")
                      ELSE NotifyResult(
                             [t.dev EXCEPT !.last_idxes[queue_idx + 1] = q.driver.idx],
                             [rings EXCEPT ![queue_idx + 1] = t.q],
                             TRUE, t.sent, "ok")

\* <VirtioNet as ExternalDevice>::write and <VirtioGpu as ExternalDevice>::write
VirtioWrite(dev, rings, offset, value) ==
    IF offset = VIRTIO_REG_NOTIFY
    THEN IF IsNet(dev) THEN NetHandleNotify(dev, rings, value)
                       ELSE GpuHandleNotify(dev, rings, value)
    ELSE IF offset = VIRTIO_REG_STATUS /\ value = 0
    THEN NotifyResult(IF IsNet(dev) THEN VirtioNetReset(dev) ELSE VirtioGpuReset(dev),
                      rings, FALSE, <<>>, "ok")
    ELSE LET w == VirtioMmioWrite(dev.virtio, offset, value)
         IN  NotifyResult([dev EXCEPT !.virtio = w.v], rings, FALSE, <<>>, w.res)

\* <VirtioNet as ExternalDevice>::tick with a frame waiting on input_rx or
\* none; fits says whether the frame and its header fit the buffer
VirtioNetTick(dev, rings, has_frame, fits) ==
    LET q == rings[VIRTIO_NET_RECV_IDX + 1]
        last_idx == dev.last_idxes[VIRTIO_NET_RECV_IDX + 1]
        desc_idx == RingAt(q.driver.ring, last_idx % MAX_QUEUE_SIZE)
    IN  IF ~IsReady(dev.virtio, VIRTIO_NET_RECV_IDX) \/ ~has_frame
             \/ q.driver.idx = last_idx
        THEN NotifyResult(dev, rings, FALSE, <<>>, "ok")
        ELSE IF ~fits THEN NotifyResult(dev, rings, FALSE, <<>>, "panic")
        ELSE NotifyResult(
               [dev EXCEPT !.last_idxes[VIRTIO_NET_RECV_IDX + 1] = (last_idx + 1) % U16],
               [rings EXCEPT ![VIRTIO_NET_RECV_IDX + 1] =
                   [q EXCEPT !.device.elems =
                                 RingPut(@, last_idx % MAX_QUEUE_SIZE,
                                         [id |-> desc_idx,
                                          len |-> VIRTIO_NET_HEADER_SIZE + 1]),
                             !.device.idx = (@ + 1) % U16]],
               TRUE, <<>>, "ok")

(***************************************************************************)
(* SpecVirtio: a guest driver that adds entries to the available rings,    *)
(* writes the device's registers (NOTIFY and the status register among     *)
(* them), and the device's tick.                                           *)
(***************************************************************************)

MaxVirtioOps == 3
MaxAvail == 2

\* the ring index the queues start from: a fresh queue, and queues that
\* have carried 255 and 65535 entries
RingStarts == {0, 255, 65535}
VirtioChannels == {[rx |-> "rx0", tx |-> "tx0"], [rx |-> "rx1", tx |-> "tx1"]}
VirtioQueues == {0, 1}
VirtioHeads == {0, 1, 2, 3}
\* the register stores of the driver, <<offset, value>>
VirtioStores == {<<20, 1>>, <<32, 1>>, <<32, 2>>, <<36, 1>>, <<48, 1>>, <<56, 256>>,
                 <<68, 1>>, <<68, 2>>, <<112, 0>>, <<112, 15>>, <<128, 4096>>,
                 <<144, 8192>>, <<160, 12288>>, <<172, 1>>}
VirtioNotifyVals == {0, 1, 2}

\* the transport block after the driver has set the device up
VirtioNegotiated(v) ==
    [v EXCEPT !.status = 15, !.driver_features = v.features_supported,
              !.driver_features_sel = 1, !.features_sel = 1, !.queue_sel = 1,
              !.queue_sizes = <<MAX_QUEUE_SIZE, MAX_QUEUE_SIZE>>,
              !.readies = <<TRUE, TRUE>>,
              !.desc_addrs = <<4096, 16384>>, !.driver_addrs = <<8192, 20480>>,
              !.device_addrs = <<12288, 24576>>]

VirtioOp(o, a, v, r, irq, sent) ==
    [op |-> o, a |-> a, v |-> v, r |-> r, is_interrupting |-> irq, sent |-> sent]

VirtioIrq(dev) == IF IsNet(dev) THEN IRQ_VirtioNet ELSE IRQ_VirtioGpu

InitVirtio ==
    /\ prv = Machine
    /\ pc = MEMORY_BASE
    /\ csr = CsrDefault
    /\ plic = PlicDefault
    /\ irqs_to_raise = <<>>
    /\ uart = UartDefault
    /\ CoreReset
    /\ phase = "step"
    /\ nops = 0
    /\ last = VirtioOp("none", 0, 0, "ok", FALSE, <<>>)
    /\ \E ch \in VirtioChannels, s \in RingStarts, net \in BOOLEAN :
          LET start == [RingZero EXCEPT !.driver.idx = s, !.device.idx = s]
              fresh == IF net THEN VirtioNetNew(ch.rx, ch.tx) ELSE VirtioGpuNew(ch.tx)
          IN  virtio = [dev |-> IF s = 0 THEN fresh
                                ELSE [fresh EXCEPT !.last_idxes = <<s, s>>,
                                                   !.virtio = VirtioNegotiated(@)],
                        rings |-> <<start, start>>]

\* phase "step": the guest runs; phase "setup": the driver has reset the
\* device and has to set its queues up again before it uses them
VirtioRunning == nops < MaxVirtioOps /\ last.r # "panic" /\ phase = "step"

VirtioIdleHart == UNCHANGED <<prv, pc, csr, plic, uart, regs, memory,
                              reserved_addr, fault_addr>>

\* the outcome of a device access: an abort leaves the state as it was
VirtioApply(o, a, v, w) ==
    /\ virtio' = IF w.res = "panic" THEN virtio
                 ELSE [dev |-> w.dev, rings |-> w.rings]
    /\ irqs_to_raise' = IF w.res = "ok" /\ w.is_interrupting
                        THEN Append(irqs_to_raise, VirtioIrq(virtio.dev))
                        ELSE irqs_to_raise
    /\ last' = VirtioOp(o, a, v, w.res, w.res = "ok" /\ w.is_interrupting, w.sent)
    /\ phase' = IF o = "write" /\ a = VIRTIO_REG_STATUS /\ v = 0 THEN "setup" ELSE phase
    /\ nops' = nops + 1
    /\ VirtioIdleHart

\* the guest driver makes descriptor head d available on queue queue_idx
\* (the GPU driver uses the control queue only)
VirtioDriverAdd ==
    /\ VirtioRunning
    /\ \E queue_idx \in VirtioQueues, d \in VirtioHeads :
          LET q == virtio.rings[queue_idx + 1]
          IN  /\ IsNet(virtio.dev) \/ queue_idx = VIRTIO_GPU_CONTROL_IDX
              /\ WrappingSub16(q.driver.idx, virtio.dev.last_idxes[queue_idx + 1]) < MaxAvail
              /\ virtio' = [virtio EXCEPT !.rings[queue_idx + 1].driver =
                               [idx |-> (q.driver.idx + 1) % U16,
                                ring |-> RingPut(q.driver.ring,
                                                 q.driver.idx % MAX_QUEUE_SIZE, d)]]
              /\ last' = VirtioOp("add", queue_idx, d, "ok", FALSE, <<>>)
    /\ nops' = nops + 1
    /\ UNCHANGED <<irqs_to_raise, phase>>
    /\ VirtioIdleHart

\* the guest driver, after it has reset the device, gives the old rings up
\* and allocates zeroed ones
VirtioDriverSetup ==
    /\ phase = "setup"
    /\ virtio' = [virtio EXCEPT !.rings = <<RingZero, RingZero>>]
    /\ phase' = "step"
    /\ UNCHANGED <<irqs_to_raise, nops, last>>
    /\ VirtioIdleHart

\* a store to the NOTIFY register
VirtioNotify ==
    /\ VirtioRunning
    /\ \E value \in VirtioNotifyVals :
          VirtioApply("notify", VIRTIO_REG_NOTIFY, value,
                      VirtioWrite(virtio.dev, virtio.rings, VIRTIO_REG_NOTIFY, value))

\* a store to one of the transport registers
VirtioRegWrite ==
    /\ VirtioRunning
    /\ \E s \in VirtioStores :
          VirtioApply("write", s[1], s[2],
                      VirtioWrite(virtio.dev, virtio.rings, s[1], s[2]))

\* Bus::tick reaches the network device
VirtioNetTicks ==
    /\ VirtioRunning
    /\ IsNet(virtio.dev)
    /\ \E has_frame \in BOOLEAN, fits \in BOOLEAN :
          VirtioApply("tick", 0, 0,
                      VirtioNetTick(virtio.dev, virtio.rings, has_frame, fits))

NextVirtio ==
    \/ VirtioDriverAdd
    \/ VirtioDriverSetup
    \/ VirtioNotify
    \/ VirtioRegWrite
    \/ VirtioNetTicks

SpecVirtio == InitVirtio /\ [][NextVirtio]_vars

(***************************************************************************)
(* C26  NOTIFY on the virtio-net TX queue and on the virtio-GPU control    *)
(* queue.                                                                  *)
(***************************************************************************)

\* the queue whose NOTIFY the device serves
ServicedQueue(dev) ==
    IF IsNet(dev) THEN VIRTIO_NET_TRANS_IDX ELSE VIRTIO_GPU_CONTROL_IDX

\* the step is a NOTIFY of the serviced queue that returned
NotifyDone ==
    /\ nops' = nops + 1
    /\ last'.op = "notify"
    /\ last'.r = "ok"
    /\ last'.v = ServicedQueue(virtio.dev)

\* the head descriptor of the i-th entry (from 0) the device has not seen
NewHead(i) ==
    LET k == ServicedQueue(virtio.dev) + 1
    IN  RingAt(virtio.rings[k].driver.ring, RingIdx(virtio.dev.last_idxes[k], i))

\* the length the device reports for an entry with head descriptor d
UsedLen(d) ==
    IF IsNet(virtio.dev) THEN 0
    ELSE IF GpuDescs[d].data.ctrl_type = "CmdGetDisplayInfo"
    THEN VIRTIO_GPU_RESP_DISPLAY_INFO_SIZE
    ELSE VIRTIO_GPU_HEADER_SIZE

\* what the entry with head descriptor d puts on the host channel
Outgoing(d) ==
    IF IsNet(virtio.dev) THEN <<NetDescs[d].data[2]>>
    ELSE IF GpuDescs[d].data.ctrl_type = "CmdResourceFlush"
    THEN <<[operation |-> "Flush", resource_id |-> GpuDescs[d].data.resource_id]>>
    ELSE <<>>

RECURSIVE OutgoingFrom(_, _)
OutgoingFrom(i, n) == IF i >= n THEN <<>> ELSE Outgoing(NewHead(i)) \o OutgoingFrom(i + 1, n)

\* C26: a NOTIFY of the net TX queue or of the GPU control queue that
\* returns handles the entries between the device's last-seen index and the
\* driver's index once each and in ring order: the host channel gets their
\* output in that order, the used ring gets {id: head descriptor, len} for
\* each and nothing else changes in it, the used index advances by their
\* number modulo 2^16, the last-seen index becomes the driver's index, and
\* an interrupt is reported; with no new entry nothing changes and no
\* interrupt is reported.
C26_NotifyProcessesNew ==
    [][NotifyDone =>
         LET k == ServicedQueue(virtio.dev) + 1
             q == virtio.rings[k]
             last_idx == virtio.dev.last_idxes[k]
             n == WrappingSub16(q.driver.idx, last_idx)
             new == {RingIdx(last_idx, i) : i \in 0 .. n - 1}
             after == virtio'.rings[k]
         IN  /\ after.device.idx = (q.device.idx + n) % U16
             /\ virtio'.dev.last_idxes[k] = q.driver.idx
             /\ after.driver = q.driver
             /\ \A i \in 0 .. n - 1 :
                   ElemAt(after.device.elems, RingIdx(last_idx, i))
                     = [id |-> NewHead(i), len |-> UsedLen(NewHead(i))]
             /\ \A j \in 0 .. MAX_QUEUE_SIZE - 1 :
                   j \notin new => ElemAt(after.device.elems, j) = ElemAt(q.device.elems, j)
             /\ last'.sent = OutgoingFrom(0, n)
             /\ last'.is_interrupting = (n > 0)
             /\ irqs_to_raise' = IF n > 0 THEN Append(irqs_to_raise, VirtioIrq(virtio.dev))
                                 ELSE irqs_to_raise
             /\ n = 0 => virtio' = virtio]_vars

\* C26 witness: a NOTIFY has sent two frames in ring order while the TX
\* queue's indices wrapped from 65535 to 1
C26_Witness ==
    /\ last.op = "notify"
    /\ last.r = "ok"
    /\ IsNet(virtio.dev)
    /\ last.sent = <<"frameB", "frameA">>
    /\ virtio.dev.last_idxes[VIRTIO_NET_TRANS_IDX + 1] = 1
    /\ virtio.rings[VIRTIO_NET_TRANS_IDX + 1].device.idx = 1

(***************************************************************************)
(* C27  a write of 0 to the status register resets the device.             *)
(***************************************************************************)

\* the step is a store of 0 to the status register
StatusZeroStep ==
    /\ nops' = nops + 1
    /\ last'.op = "write"
    /\ last'.a = VIRTIO_REG_STATUS
    /\ last'.v = 0

\* every register of the transport block has its power-on value
TransportAtPowerOn(v) ==
    /\ v.status = 0
    /\ v.features_sel = 0
    /\ v.driver_features_sel = 0
    /\ v.driver_features = <<0, 0, 0, 0>>
    /\ v.queue_sel = 0
    /\ v.shm_sel = 0
    /\ \A q \in {1, 2} :
          /\ v.queue_sizes[q] = 0
          /\ v.readies[q] = FALSE
          /\ v.desc_addrs[q] = 0
          /\ v.driver_addrs[q] = 0
          /\ v.device_addrs[q] = 0

\* C27: a write of 0 to the status register of the network or the GPU
\* device returns, from any state, every transport register, the last-seen
\* ring indices and (GPU) the resources and the scanout to their power-on
\* values; the device type, its feature words, its maximum queue size and
\* its host channel endpoints stay what they were, and the rings in guest
\* RAM are not touched.
C27_StatusZeroResets ==
    [][StatusZeroStep =>
         LET before == virtio.dev
             after == virtio'.dev
         IN  /\ last'.r = "ok"
             /\ TransportAtPowerOn(after.virtio)
             /\ after.last_idxes = <<0, 0>>
             /\ after.virtio.device_type = before.virtio.device_type
             /\ after.virtio.features_supported = before.virtio.features_supported
             /\ after.virtio.queue_size_max = before.virtio.queue_size_max
             /\ after.output_tx = before.output_tx
             /\ IsNet(before) => after.input_rx = before.input_rx
             /\ ~IsNet(before) => after.resources = {} /\ after.scanouts = <<0>>
             /\ virtio'.rings = virtio.rings
             /\ ~last'.is_interrupting]_vars

\* C27 witness: the status register of a GPU device that was set up and had
\* served 65535 entries has been written with 0, and the device is at its
\* power-on values
C27_Witness ==
    /\ last.op = "write"
    /\ last.a = VIRTIO_REG_STATUS
    /\ last.v = 0
    /\ phase = "setup"
    /\ ~IsNet(virtio.dev)
    /\ virtio.rings[VIRTIO_GPU_CONTROL_IDX + 1].driver.idx = 65535
    /\ virtio.dev.last_idxes = <<0, 0>>
    /\ virtio.dev.virtio.status = 0
    /\ virtio.dev.virtio.readies = <<FALSE, FALSE>>

(***************************************************************************)
(* C31  mip.SEIP after a bus tick in which the PLIC raised nothing.        *)
(***************************************************************************)

\* the step is a Bus::tick that can_external_interrupt let through
TickServiced == phase = "tick" /\ last'.op = "tick" /\ last'.r = "ok"

\* the IRQ the tick popped and handed to the PLIC (IRQ_None: the queue was
\* empty), and whether Plic::raise_interrupt then returned a privilege
TickPopped == last'.v
TickRaised ==
    /\ TickPopped # IRQ_None
    /\ RaiseInterrupt(SetPending(plic, TickPopped)).prv # NoPriv

\* C31, as claimed: after a tick that is not short-circuited and in which
\* the PLIC raised no external interrupt, mip.SEIP is 0, whether the deferred
\* queue was empty or an IRQ was popped and the PLIC selected no candidate.
C31_Original ==
    [][TickServiced /\ ~TickRaised => Seip(csr') = 0]_vars

\* C31, what holds: with an empty queue the tick clears mip.SEIP; with a
\* popped IRQ for which the PLIC selects no candidate the tick leaves every
\* CSR, mip.SEIP included, as it was.
C31_EmptyQueueClears ==
    [][TickServiced /\ ~TickRaised =>
         IF TickPopped = IRQ_None THEN Seip(csr') = 0 ELSE csr' = csr]_vars

(***************************************************************************)
(* The program counter. Cpu::step writes pc in the BRANCH, JAL and JALR    *)
(* arms (after check_misaligned_addr) and in the MRET and SRET arms (from  *)
(* mepc and sepc); the run loop adds 4 after any other instruction and     *)
(* takes pc from Csr::handle_trap after a trap. Software runs in RAM and   *)
(* writes mepc, sepc, mtvec and stvec with any low bits; a supervisor      *)
(* software interrupt may be pending, so that both trap vector modes are   *)
(* entered. nops counts the instructions.                                  *)
(***************************************************************************)
MaxPcOps == 3

\* mutant: only odd targets are refused
CheckMisalignedAddr_Halfword(addr) == addr[2] % 2 # 0

\* Cpu::check_misaligned_addr: TRUE for Err(InstructionAddressMisaligned)
CheckMisalignedAddr(addr) == addr[2] % 4 # 0

\* Cpu::fetch, the check of the translated address: the translation keeps
\* the low 12 bits of pc
FetchMisaligned(next_pc) == next_pc[2] % 4 # 0

\* B-type and J-type immediates (always even), rs1 + imm of a JALR, and the
\* values software writes to the four CSRs
PcImms == {U(2), U(6), U(8)}
PcJalrSums == {U(3), U(5), U(9)}
PcCsrs == {MEPC, SEPC, MTVEC, STVEC}
PcCsrVals == {Or32(MEMORY_BASE, U(35)), Or32(MEMORY_BASE, U(258)),
              Or32(MEMORY_BASE, U(515))}

InitPc ==
    /\ prv = Machine
    /\ pc = Or32(MEMORY_BASE, U(16))
    /\ \E ip \in {Zero32, IP_SSIP}, mi \in {Zero32, IP_SSIP} :
          csr = [CsrDefault EXCEPT !.mstatus = Or32(STATUS_MIE, STATUS_SIE),
                                   !.mie = IP_SSIP, !.mip = ip, !.mideleg = mi,
                                   !.mtvec = HandlerM, !.stvec = HandlerS]
    /\ plic = PlicDefault
    /\ irqs_to_raise = <<>>
    /\ uart = UartDefault
    /\ phase = "tick"
    /\ nops = 0
    /\ last = NoOp
    /\ CoreReset
    /\ virtio = VirtioIdle

PcTick ==
    /\ nops < MaxPcOps
    /\ Tick(FALSE, FALSE)

PcIntr ==
    /\ nops < MaxPcOps
    /\ Intr

\* the instruction at pc was fetched
PcReady == phase = "step" /\ InRam(pc) /\ ~FetchMisaligned(pc)

PcDone ==
    /\ phase' = IF last'.r = "panic" THEN "panic" ELSE "tick"
    /\ nops' = nops + 1
    /\ UNCHANGED <<plic, irqs_to_raise, uart, virtio>>
    /\ UNCHANGED <<regs, memory, reserved_addr>>

\* Ok(true) with pc = next_pc, or Err(InstructionAddressMisaligned) and
\* Cpu::handle_trap, which takes the latched address as xtval
PcJumpTo(next_pc, opname) ==
    /\ PcReady
    /\ IF CheckMisalignedAddr(next_pc)
       THEN EnterTrap(InstructionAddressMisaligned, next_pc, opname)
       ELSE /\ pc' = next_pc
            /\ last' = Op(opname, 0, Zero32, next_pc, "ok", 0)
            /\ UNCHANGED <<prv, csr>>
    /\ fault_addr' = NoAddr
    /\ PcDone

\* a taken branch or a JAL: next_pc = pc.wrapping_add(imm)
PcJal(imm) == PcJumpTo(Add32(pc, imm), "jal")

\* JALR: next_pc = (imm + rs1) & !1
PcJalr(sum) == PcJumpTo(And32(Add32(pc, sum), Not32(U(1))), "jalr")

\* Ok(false): pc += 4
PcNop ==
    /\ PcReady
    /\ pc' = Add32(pc, U(4))
    /\ last' = Op("nop", 0, Zero32, Zero32, "ok", 0)
    /\ UNCHANGED <<prv, csr, fault_addr>>
    /\ PcDone

PcEcall ==
    /\ PcReady
    /\ EnterTrap(EcallTrap(prv), Zero32, "ecall")
    /\ UNCHANGED fault_addr
    /\ PcDone

PcMret ==
    /\ PcReady
    /\ Mret
    /\ UNCHANGED fault_addr
    /\ PcDone

PcSret ==
    /\ PcReady
    /\ Sret
    /\ UNCHANGED fault_addr
    /\ PcDone

\* csrrw x0, addr, x5 with x5 = value
PcCsrw(addr, value) ==
    /\ PcReady
    /\ LET w == CsrWrite(csr, addr, value, prv)
       IN  IF w.err = "ok"
           THEN /\ csr' = w.csr
                /\ pc' = Add32(pc, U(4))
                /\ last' = Op("csrw", addr, Zero32, value, "ok", 0)
                /\ UNCHANGED prv
           ELSE EnterTrap(IlligalInstruction, CsrwInst(addr), "csrw")
    /\ UNCHANGED fault_addr
    /\ PcDone

PcJals == \E imm \in PcImms : PcJal(imm)
PcJalrs == \E sum \in PcJalrSums : PcJalr(sum)
PcCsrws == \E addr \in PcCsrs, value \in PcCsrVals : PcCsrw(addr, value)

NextPc ==
    \/ PcTick \/ PcIntr \/ PcNop \/ PcJals \/ PcJalrs \/ PcEcall
    \/ PcMret \/ PcSret \/ PcCsrws

SpecPc == InitPc /\ [][NextPc]_vars

\* C32: with a 4-aligned initial pc, the program counter is a multiple of 4
\* in every reachable state, after sequential steps, taken branches, JAL and
\* JALR, trap entries in direct and vectored mode, and mret and sret with
\* any mepc, sepc, mtvec and stvec software wrote; so the fetch never
\* reports InstructionAddressMisaligned.
C32_PcAligned ==
    /\ pc[2] % 4 = 0
    /\ ~FetchMisaligned(pc)
    /\ csr.mepc[2] % 4 = 0
    /\ csr.sepc[2] % 4 = 0

\* C32, the case: an mret has returned to an mepc that software wrote with
\* its low bits set, while the trap vector is in vectored mode
C32_Witness ==
    /\ last.op = "mret"
    /\ last.r = "ok"
    /\ pc = Or32(MEMORY_BASE, U(32))
    /\ And32(csr.mtvec, TVEC_MODE) = U(1)

(***************************************************************************)
(* The run loop with Machine software that also writes mip: Csr::write     *)
(* keeps the SEIP and SSIP bits of the value (MIP_SUPPORTED). The PLIC is  *)
(* either as constructed or routes both IRQs to context 1.                 *)
(***************************************************************************)
InitSeip ==
    /\ prv = Machine
    /\ pc = MEMORY_BASE
    /\ csr = [CsrDefault EXCEPT !.mstatus = STATUS_MIE, !.mie = IP_SEIP,
                                !.mtvec = HandlerM]
    /\ plic \in {PlicDefault, PlicConfigured(1, 1, Zero32, BothIrqs, 0)}
    /\ irqs_to_raise = <<>>
    /\ uart = UartDefault
    /\ phase = "tick"
    /\ nops = 0
    /\ last = NoOp
    /\ CoreReset
    /\ virtio = VirtioIdle

SeipCsrw == \E value \in {Zero32, IP_SEIP} : StepCsrw(MIP, value)

NextSeip == NextDev \/ SeipCsrw

SpecSeip == InitSeip /\ [][NextSeip]_vars

\* C33: whenever resolve_pending returns SupervisorExternalInterrupt, the
\* PLIC holds an outstanding IRQ of a registered device, so that
\* prepare_interrupt finds a device to acknowledge; in every state reached
\* through CSR writes, bus accesses and ticks.
C33_Original ==
    (/\ phase = "intr"
     /\ ResolvePending(csr, prv).kind = "trap"
     /\ ResolvePending(csr, prv).e = SupervisorExternalInterrupt)
        => plic.interrupting_irq \in {IRQ_VirtioNet, IRQ_Uart, IRQ_VirtioGpu}

\* C33, what holds: the interrupt check never sees SEIP raised by the PLIC
\* without an outstanding IRQ; only a software write of mip.SEIP gets there
C33_PlicRaisedSeip ==
    (/\ phase = "intr"
     /\ ResolvePending(csr, prv).kind = "trap"
     /\ ResolvePending(csr, prv).e = SupervisorExternalInterrupt)
        => plic.interrupting_irq \in {IRQ_VirtioNet, IRQ_Uart}

(***************************************************************************)
(* The run loop of SpecTimer with Machine software that also writes mie:   *)
(* Csr::write keeps the six bits of MIE_SUPPORTED, the machine-level ones  *)
(* included.                                                               *)
(***************************************************************************)
MachineIeVals == {IP_MTIP, IP_MSIP, Or32(IP_STIP, IP_MTIP)}
MachineIeWrites == \E value \in MachineIeVals : TimerCsrw(MIE, value)

NextMachineIe == NextTimer \/ MachineIeWrites

SpecMachineIe == InitTimer /\ [][NextMachineIe]_vars

\* C34: for every CSR state reached through CSR writes, CLINT writes, counter
\* progression, ticks and traps, resolve_pending returns None or one of the
\* three supervisor interrupts; it never reaches its abort branch, also not
\* when only machine-level bits (MSIP, MTIP, MEIP) are pending and enabled.
C34_Original ==
    phase = "intr" => ResolvePending(csr, prv).kind \in {"none", "trap"}

(***************************************************************************)
(* The run loop of SpecPc with Machine software that also writes mstatus:  *)
(* Csr::write keeps the bits of MSTATUS_SUPPORTED, both bits of MPP        *)
(* included.                                                               *)
(***************************************************************************)
MppVals == {ShlField(1, STATUS_MPP_POS), ShlField(2, STATUS_MPP_POS),
            Or32(STATUS_MIE, ShlField(3, STATUS_MPP_POS))}
MppWrites == \E value \in MppVals : PcCsrw(MSTATUS, value)

NextMpp == NextPc \/ MppWrites

SpecMpp == InitPc /\ [][NextMpp]_vars

\* C35: mstatus.MPP never holds the reserved encoding 2 in a reachable state,
\* after any sequence of CSR writes to mstatus, trap entries and trap
\* returns; so mret and the MPRV translation convert MPP to a privilege.
C35_Original ==
    /\ GetMstatusMpp(csr) # 2
    /\ ~(last.op = "mret" /\ last.r = "panic")

\* C35, what holds: trap entries and trap returns alone leave MPP at 0, 1 or 3
C35_TrapsKeepMpp == ValidPriv(GetMstatusMpp(csr))

(***************************************************************************)
(* Page walks that meet leaves without the permission of the access. The   *)
(* supervisor runs the instructions of SpecMmu over these page tables:     *)
(*   VA 0x80000000 (entry 0x200)  4 MiB identity mapping of the program    *)
(*   VA 0x40000000 (entry 0x100)  4 MiB leaf at PA 0x80400000: read,       *)
(*                                write and execute, or read-only, or      *)
(*                                writable with D = 0                      *)
(*   VA 0x40400000 (entry 0x101)  pointer to the table at PA 0x80002000,   *)
(*                                whose entry 0 is an execute-only 4 KiB   *)
(*                                leaf                                     *)
(*   VA 0x00000000 (entry 0x000)  4 MiB at PA 0, where the bus has nothing *)
(* The first word of the data page at PA 0x80400000 is guest data: zero,   *)
(* or a word with the bits of a writable leaf.                             *)
(* The program has no TLB (tlb.rs is not a module of the crate): every     *)
(* translation is the walk of Cpu::translate_va.                           *)
(***************************************************************************)
LEVEL0_TABLE == <<32768, 8192>>
PtePointer == <<8192, 2049>>
PteReadOnly == <<8208, 195>>
PteNoDirty == <<8208, 71>>
PteExecOnly == <<8208, 201>>

WalkTables(leaf1, data) ==
    [a \in {ROOT_TABLE, VaPte, Add32(VaPte, U(PTESIZE)), Add32(ROOT_TABLE, U(512 * PTESIZE)),
            LEVEL0_TABLE, VaData, PaData} |->
        CASE a = ROOT_TABLE -> PteHole
          [] a = VaPte -> leaf1
          [] a = Add32(VaPte, U(PTESIZE)) -> PtePointer
          [] a = Add32(ROOT_TABLE, U(512 * PTESIZE)) -> PteIdentity
          [] a = LEVEL0_TABLE -> PteExecOnly
          [] a = PaData -> data
          [] OTHER -> Zero32]

InitWalk ==
    /\ prv = Supervisor
    /\ pc = MEMORY_BASE
    /\ csr = [CsrDefault EXCEPT !.satp = SatpSv32, !.mtvec = HandlerM, !.stvec = HandlerS,
                                !.medeleg = Or32(U(2 ^ 12), Or32(U(2 ^ 13), U(2 ^ 15)))]
    /\ plic = PlicDefault
    /\ irqs_to_raise = <<>>
    /\ uart = UartDefault
    /\ regs = [RegistersDefault EXCEPT ![5] = PteData]
    /\ \E leaf1 \in {PteData, PteReadOnly, PteNoDirty}, data \in {Zero32, PteData} :
          memory = WalkTables(leaf1, data)
    /\ virtio = VirtioIdle
    /\ reserved_addr = NoAddr
    /\ fault_addr = NoAddr
    /\ phase = "step"
    /\ nops = 0
    /\ last = NoOp

SpecWalk == InitWalk /\ [][NextMmu]_vars

\* the leaf the page tables hold for va: the first entry with R = 1 or X = 1
\* on the way from the root, <<>> when there is none
IsLeafPte(pte) ==
    BitAnd(pte[2], PTE_V) # 0 /\ (BitAnd(pte[2], PTE_R) # 0 \/ BitAnd(pte[2], PTE_X) # 0)
LeafOf(c, mem, va) ==
    LET root == PageBase(GetSatpPpn(c)[1] * Half + GetSatpPpn(c)[2])
        pte1 == MemRead(mem, Add32(root, U(Vpn(va, 1) * PTESIZE)))
        pte0 == MemRead(mem, Add32(PageBase(PtePpn(pte1)), U(Vpn(va, 0) * PTESIZE)))
    IN  IF IsLeafPte(pte1) THEN <<pte1>>
        ELSE IF BitAnd(pte1[2], PTE_V) # 0 /\ IsLeafPte(pte0) THEN <<pte0>>
        ELSE <<>>
LeafLacks(c, mem, va, bit) ==
    LeafOf(c, mem, va) # <<>> /\ BitAnd(LeafOf(c, mem, va)[1][2], bit) = 0

\* a store of the supervisor that follows a completed load from the same
\* address
StoreAfterLoad ==
    /\ phase = "step"
    /\ prv = Supervisor
    /\ last.op = "load" /\ last.r = "ok"
    /\ last'.op = "store" /\ last'.x = last.x

\* C36: with page tables, satp and mstatus unchanged, a translation that
\* follows an earlier one of the same page returns what a fresh page walk
\* returns; in particular a store to a page whose leaf PTE has W = 0 or D = 0
\* still raises StoreOrAMOPageFault after a load from that page.
C36_Original ==
    [][StoreAfterLoad /\ (LeafLacks(csr, memory, last.x, PTE_W)
                            \/ LeafLacks(csr, memory, last.x, PTE_D))
         => /\ last'.r = "err"
            /\ last'.e = StoreOrAMOPageFault
            /\ fault_addr' = SomeAddr(last.x)]_vars

\* C36, what holds: the store is translated by the walk of the tables as
\* they are, whatever the load before it found
C36_StoreWalksAgain ==
    [][StoreAfterLoad =>
         LET t == TranslateVa(csr, memory, prv, last.x, Write)
         IN  IF t.kind = "ok" THEN last'.r = "ok" /\ memory'[t.pa] = regs[last'.a]
             ELSE last'.r \in {"err", "panic"} /\ last'.e = t.e /\ memory' = memory]_vars

\* a load or a store of the supervisor whose walk meets a leaf without the
\* permission bit of the access
DeniedAtLeaf ==
    /\ phase = "step"
    /\ prv = Supervisor
    /\ \/ last'.op = "load" /\ LeafLacks(csr, memory, last'.x, PTE_R)
       \/ last'.op = "store" /\ LeafLacks(csr, memory, last'.x, PTE_W)

\* C37: when the page walker reads a leaf PTE (R = 1 or X = 1), at level 1 or
\* level 0, whose permission bit for the access type is clear, translate
\* returns the page fault of the access type with fault_addr = va and reads
\* no further PTE: the leaf is never taken as a pointer to a next table.
C37_Original ==
    [][DeniedAtLeaf =>
         /\ last'.r = "err"
         /\ last'.e = IF last'.op = "load" THEN LoadPageFault ELSE StoreOrAMOPageFault
         /\ fault_addr' = SomeAddr(last'.x)
         /\ memory' = memory]_vars

\* C37, what holds at level 0: the denied access faults with the address
\* latched
C37_Level0Faults ==
    [][DeniedAtLeaf /\ ~IsLeafPte(MemRead(memory, Add32(ROOT_TABLE, U(Vpn(last'.x, 1) * PTESIZE))))
         => /\ last'.r = "err"
            /\ last'.e = IF last'.op = "load" THEN LoadPageFault ELSE StoreOrAMOPageFault
            /\ fault_addr' = SomeAddr(last'.x)]_vars

\* a received byte waits in RBR; the guest's read of RBR (DLAB clear)
HoldsByte(u) == BitAnd(u.lsr, LSR_DR) # 0
RbrRead == last'.op = "read" /\ last'.a = UART_RBR /\ ~IsDlabEnabled(uart)

\* C38: no received byte is lost: from the tick that places a byte in RBR
\* until the guest reads RBR, LSR.DR stays set and no later byte overwrites
\* RBR, whatever other registers (IER, IIR, THR, LCR) the guest reads or
\* writes and whatever ticks occur in between.
C38_Original ==
    [][HoldsByte(uart) /\ ~RbrRead => HoldsByte(uart') /\ uart'.rbr = uart.rbr]_vars

\* C38, what holds: while LSR.DR is set a tick places no further byte
C38_TickKeepsByte ==
    [][HoldsByte(uart) /\ last'.op = "tick" => HoldsByte(uart') /\ uart'.rbr = uart.rbr]_vars

(***************************************************************************)
(* The receive path of the network device. The host's network thread       *)
(* sends frames on the input channel (chan), the guest driver posts        *)
(* receive buffers on queue 0, and Bus::tick calls VirtioNet::tick, which  *)
(* takes one frame from the channel with try_recv. heard keeps the frames  *)
(* in the order the host sent them, delivered the frames in the order      *)
(* they were copied into receive buffers. The device is set up and the     *)
(* buffers are large enough for a frame. nops counts the posted buffers.   *)
(***************************************************************************)
MaxFrames == 2
NetFrames == {"frameA", "frameB"}

InitNetRx ==
    /\ prv = Machine
    /\ pc = MEMORY_BASE
    /\ csr = CsrDefault
    /\ plic = PlicDefault
    /\ irqs_to_raise = <<>>
    /\ uart = UartDefault
    /\ CoreReset
    /\ phase = "step"
    /\ nops = 0
    /\ last = VirtioOp("none", 0, 0, "ok", FALSE, <<>>)
    /\ \E s \in RingStarts :
          LET start == [RingZero EXCEPT !.driver.idx = s, !.device.idx = s]
              fresh == VirtioNetNew("rx0", "tx0")
          IN  virtio = [dev |-> [fresh EXCEPT !.last_idxes = <<s, s>>,
                                              !.virtio = VirtioNegotiated(@)],
                        rings |-> <<start, start>>,
                        chan |-> <<>>, heard |-> <<>>, delivered |-> <<>>]

\* the host's network thread: input_tx.send(frame)
NetRxSend ==
    /\ Len(virtio.heard) < MaxFrames
    /\ \E f \in NetFrames :
          /\ virtio' = [virtio EXCEPT !.chan = Append(@, f), !.heard = Append(@, f)]
          /\ last' = VirtioOp("send", 0, 0, "ok", FALSE, <<f>>)
    /\ UNCHANGED <<irqs_to_raise, phase, nops>>
    /\ VirtioIdleHart

\* the guest driver makes a receive buffer available on queue 0
NetRxPost ==
    /\ nops < MaxAvail
    /\ LET q == virtio.rings[VIRTIO_NET_RECV_IDX + 1]
       IN  /\ virtio' = [virtio EXCEPT !.rings[VIRTIO_NET_RECV_IDX + 1].driver =
                            [idx |-> (q.driver.idx + 1) % U16,
                             ring |-> RingPut(q.driver.ring,
                                              q.driver.idx % MAX_QUEUE_SIZE, nops)]]
           /\ last' = VirtioOp("add", VIRTIO_NET_RECV_IDX, nops, "ok", FALSE, <<>>)
    /\ nops' = nops + 1
    /\ UNCHANGED <<irqs_to_raise, phase>>
    /\ VirtioIdleHart

\* Bus::tick reaches the network device: try_recv takes the head of the
\* channel whenever queue 0 is ready, and the frame lives in the local v;
\* the tick returns true once it has copied v into a buffer
NetRxTick ==
    LET has_frame == virtio.chan # <<>>
        taken == IsReady(virtio.dev.virtio, VIRTIO_NET_RECV_IDX) /\ has_frame
        t == VirtioNetTick(virtio.dev, virtio.rings, has_frame, TRUE)
    IN  /\ virtio' = [virtio EXCEPT
                         !.dev = t.dev, !.rings = t.rings,
                         !.chan = IF taken THEN Tail(@) ELSE @,
                         !.delivered = IF t.is_interrupting
                                       THEN Append(@, Head(virtio.chan)) ELSE @]
        /\ irqs_to_raise' = IF t.is_interrupting
                            THEN Append(irqs_to_raise, IRQ_VirtioNet)
                            ELSE irqs_to_raise
        /\ last' = VirtioOp("tick", 0, 0, t.res, t.is_interrupting,
                            IF taken THEN <<Head(virtio.chan)>> ELSE <<>>)
        /\ UNCHANGED <<phase, nops>>
        /\ VirtioIdleHart

NextNetRx == NetRxSend \/ NetRxPost \/ NetRxTick

SpecNetRx == InitNetRx /\ [][NextNetRx]_vars

\* C39: a frame taken from the host input channel is never dropped: when no
\* unseen receive descriptor is available at the tick that dequeues it, the
\* frame is retained and is delivered on a later tick once the driver has
\* posted a descriptor, and frames are delivered in channel order. The
\* frames the host sent are those delivered followed by those still waiting.
C39_Original == virtio.heard = virtio.delivered \o virtio.chan

\* C39, what holds: a tick that finds a frame and an unseen descriptor
\* delivers the head of the channel
C39_DeliversHead ==
    [][last'.op = "tick" /\ virtio.chan # <<>>
         /\ virtio.rings[VIRTIO_NET_RECV_IDX + 1].driver.idx
               # virtio.dev.last_idxes[VIRTIO_NET_RECV_IDX + 1]
         => virtio'.delivered = Append(virtio.delivered, Head(virtio.chan))]_vars

(***************************************************************************)
(* The deferred IRQ queue of the bus. Machine software runs with           *)
(* mstatus.MIE clear (Bus::tick returns at once) or set, stores characters *)
(* to the Uart's THR and reads its LSR; Bus::read and Bus::write push the  *)
(* Uart's IRQ whenever the response says the Uart is interrupting.         *)
(* MaxDeferred bounds the length of the queue the accesses build up.       *)
(***************************************************************************)
MaxDeferred == 4

InitDeferred ==
    /\ prv = Machine
    /\ pc = MEMORY_BASE
    /\ \E ms \in {Zero32, STATUS_MIE} :
          csr = [CsrDefault EXCEPT !.mstatus = ms, !.mtvec = HandlerM]
    /\ plic = PlicDefault
    /\ irqs_to_raise = <<>>
    /\ uart = UartDefault
    /\ phase = "tick"
    /\ nops = 0
    /\ last = NoOp
    /\ CoreReset
    /\ virtio = VirtioIdle

\* SB to THR with DLAB clear and IER.ETBEI as given: Uart::write, Bus::write
DeferredUartWrite(etbei) ==
    /\ StepReady
    /\ Advance
    /\ Len(irqs_to_raise) < MaxDeferred
    /\ LET u == IF etbei THEN UartRaiseInterrupt(uart) ELSE uart
       IN  /\ uart' = u
           /\ irqs_to_raise' = BusDeviceResponse(irqs_to_raise, IRQ_Uart, u.is_interrupting)
           /\ last' = Op("uart_write", IRQ_Uart, Zero32, Zero32, "ok",
                         IF u.is_interrupting THEN 1 ELSE 0)
    /\ UNCHANGED <<prv, csr, plic>>
    /\ UNCHANGED <<cpuvars, virtio>>

\* LB from LSR: Uart::read, Bus::read
DeferredUartRead ==
    /\ StepReady
    /\ Advance
    /\ Len(irqs_to_raise) < MaxDeferred
    /\ irqs_to_raise' = BusDeviceResponse(irqs_to_raise, IRQ_Uart, uart.is_interrupting)
    /\ last' = Op("uart_read", UART_LSR, Zero32, Zero32, "ok", 0)
    /\ UNCHANGED <<prv, csr, plic, uart>>
    /\ UNCHANGED <<cpuvars, virtio>>

DeferredUartWrites == \E etbei \in BOOLEAN : DeferredUartWrite(etbei)

NextDeferred ==
    \/ BusTick \/ Intr \/ DevJump \/ DeferredUartWrites \/ DeferredUartRead

SpecDeferred == InitDeferred /\ [][NextDeferred]_vars

\* C40: the deferred IRQ queue is bounded: in every reachable state it holds
\* at most one entry per device (at most three entries), whatever sequence
\* of device register reads and writes, device ticks and short-circuited or
\* serviced bus ticks occurs.
C40_Original ==
    /\ Len(irqs_to_raise) <= 3
    /\ \A i, j \in 1 .. Len(irqs_to_raise) :
          irqs_to_raise[i] = irqs_to_raise[j] => i = j

\* C40, what holds: a serviced tick takes one entry from the queue whenever
\* the queue is not empty after the device ticks
C40_ServicedTickPops ==
    [][TickServiced /\ TickPopped # IRQ_None
         => Len(irqs_to_raise') <= Len(irqs_to_raise) + 1]_vars

====
